---- MODULE Spec2Model ----
(***************************************************************************)
(* A model of paulstuart/sshclient: the timeout-bounded executor, the      *)
(* (Results, error) command API run against the in-process test server,    *)
(* and the SCP sink codec.  Text on the wire and in buffers is a sequence  *)
(* of byte values (naturals below 256).                                    *)
(***************************************************************************)
EXTENDS Integers, Sequences, FiniteSets, TLC

VARIABLES
    \* ---- timeout-bounded executor: exec, Run (src/client.go:170-199) ----
    timeout,      \* the caller-supplied timeout, in seconds
    callerPc,     \* position of the goroutine running exec
    workerPc,     \* position of the goroutine running  c <- Run(session, cmd)
    timer,        \* the channel of time.After: "none", "armed", "fired", "taken"
    sessOpen,     \* FALSE once Session.Close has run
    sessOut,      \* Session.out, the captured stdout bytes
    sessErr,      \* Session.err, the captured stderr bytes
    workerRes,    \* the Results value the worker got from Run
    ret,          \* the named return values (rc, stdout, stderr, err) of exec
    outcomes,     \* the select branches the caller has taken, in order
    \* ---- (Results, error) API against the test server ----
    \* ---- (src/client.go:385-451, src/server.go:43-296)  ----
    rEntry,       \* "ExecPassword", or "Run" on a dialed, unbuffered Session
    rUser,        \* user name the client offers
    rPass,        \* password the client offers
    rCmd,         \* the command text
    rTimeout,     \* the timeout argument, in seconds
    rHandler,     \* ServerOptions.Exec: [kind, rc, out, err]
    rDuration,    \* seconds the bash process of a BashHandler runs
    cliPc,        \* position of the client call
    srvPc,        \* position of the server for this connection
    c2s,          \* session requests in flight, client to server
    s2c,          \* channel messages in flight, server to client
    bufOut,       \* ssh.Session.Stdout is &s.out
    bufErr,       \* ssh.Session.Stderr is &s.err
    pendOut,      \* stdout bytes the channel has received
    pendErr,      \* stderr bytes the channel has received
    outBuf,       \* Session.out
    errBuf,       \* Session.err
    exitStatus,   \* status of the exit-status request received, -1 if none
    execReply,    \* reply to the exec request: "none", "ok", "fail"
    res,          \* the Results the call returned
    rerr,         \* the error the call returned
    wroteOut,     \* every byte the handler wrote to the channel
    wroteErr,     \* every byte the handler wrote to the channel's Stderr()
    hRc,          \* exit code the handler's Exec returned
    hErr,         \* error the handler's Exec returned
    sentReqs,     \* requests the dispatcher sent on the channel
    elapsed,      \* seconds the handler's Exec has been running
    rAttempts,    \* how often the call has dialled, opened a channel, sent exec
    cliConn,      \* the call's ssh.Client: "none", "open" or "closed"
    bashIO,       \* bash's output: not yet copied to the channel, and lost
    \* ---- the SCP control line (src/client.go:474-485, 510) ----
    kEntry,       \* who writes the line: a CopyFile variant, or Copy itself
    kPath,        \* the path given to CopyFile, or the name given to Copy
    kMode,        \* the os.FileMode
    kSize,        \* the byte length
    kLine,        \* the control line written to the channel
    kPc,          \* "start", then "written"
    \* ---- Session.Copy (src/client.go:488-547) ----
    cpEntry,      \* whose Copy runs: "Session.Copy" or "Connection.Copy"
    cpBody,       \* the bytes the reader r yields
    cpName,       \* the filename argument
    cpDest,       \* the destination argument
    cpMode,       \* the mode argument
    cpSize,       \* the size argument
    cpPc,         \* position of the goroutine running Copy
    cpWire,       \* what Copy has put on the channel, in order
    wClosed,      \* TRUE once w.Close has run
    wFailed,      \* TRUE once a write to w or its Close has returned an error
    cpOff,        \* how many bytes of the body io.Copy has written
    cpIoErr,      \* the error io.Copy returned: "none", "read", "eof", "other"
    cpChan,       \* the client's end of the channel: "none", "open", "closed"
    cpBuffered,   \* TRUE once Buffered has pointed Stdout and Stderr at s.out, s.err
    cpOut,        \* Session.out
    cpErr,        \* Session.err
    scpPc,        \* the remote scp: "none", "running", "exited", "lost"
    scpStatus,    \* its exit status, -1 while it has none
    waitPc,       \* position of the goroutine running  errors <- s.ssh.Wait()
    waitRes,      \* the error Wait returned
    cpRet,        \* what Copy returned
    \* ---- the decoder of the remote's stdout (src/client.go:529-543) ----
    dStdout,      \* s.out.String(), the remote's stdout
    dMessage,     \* the message of the first frame the stdout was built from
    dFramed,      \* TRUE when the stdout was built from status frames
    dPc,          \* "start", then "done"
    dDecoded,     \* the Stdout of the CmdError
    dPanicked,    \* TRUE when the decoding ended in a panic
    \* ---- the life of a Session: dial, Terminal, Close ----
    \* ---- (src/client.go:118-167, 270-275, 368-429)    ----
    lVariant,     \* "pty": NewSession requests the pty; "plain": Terminal does
    lPc,          \* "start", "session" (the caller holds a Session), "failed"
    lHasClient,   \* s.client != nil
    connState,    \* the transport handle: "none", "open", "closed"
    connReleased, \* how many times the transport handle was released
    chanOpen,     \* TRUE while the logical channel is open
    lPty,         \* TRUE once a pty request succeeded
    lErr,         \* the error the last call returned
    lLast,        \* the last call: "none", "dial", "terminal", "close"
    lCloses,      \* calls of Session.Close so far
    lCalls,       \* calls of Terminal and Close so far
    \* ---- the test server: Server, its accept loop, its shutdown ----
    \* ---- closure (src/server.go:119-222)                        ----
    sPortOpt,     \* *options.Port at the call, -1 when options.Port is nil
    sCfgUser,     \* options.Username
    sCfgPass,     \* options.Password
    sPc,          \* "start", "serving" (Server returned a closure), "failed"
    sCallback,    \* TRUE when config.PasswordCallback was installed
    sBound,       \* the port the listener is bound to, 0 while there is none
    sReported,    \* *options.Port after Server returned, -1 while unset
    listener,     \* "none", "open", "closed"
    listening,    \* the variable shared by the accept loop and the closure
    loopPc,       \* accept loop: "idle", "accept", "handshake", "exited"
    sBacklog,     \* connections waiting to be accepted: [user, pass]
    sConn,        \* the connection the loop is handshaking
    sConns,       \* connections clients have made so far
    sAuthLog,     \* the handshakes done: [user, pass, ok]
    sFailLogs,    \* "Failed to accept incoming connection" lines logged
    sCloseLogged, \* TRUE once the accept error of a closed listener was logged
    sSpurious,    \* accept errors that had another cause, so far
    sAcceptedAfter, \* TRUE once a connection was accepted after a shutdown
    shutPc,       \* each invocation of the closure: "idle", "called", "done"
    \* ---- one Session reused across calls (Buffered, Run, Clear, Close) ----
    ssOut,        \* Session.out, the captured-stdout buffer
    ssErr,        \* Session.err, the captured-stderr buffer
    ssRedir,      \* Buffered was called: ssh.Stdout/Stderr point at the buffers
    ssStarted,    \* the ssh.Session has started its one command
    ssChan,       \* the logical channel: "open" or "closed"
    ssConn,       \* the connection: "open" or "closed"
    ssRes,        \* Results of the last Run
    ssRerr,       \* error of the last Run
    ssWrote,      \* per Run, the bytes the remote wrote on each stream
    ssLog,        \* the calls made on the Session, in order
    ssShell,      \* per stream, the shell's copier: "none", "pending", "captured", "discarded"
    ssSince,      \* what the remote wrote to the buffers since the last Clear
    ssWriting,    \* the Write to a buffer that a shell's copier is inside of
    \* ---- the test server's connections, channels and request loops ----
    dConn,        \* per connection: "none", "queued", "handshake", "failed", "up"
    dValid,       \* per connection: it offered the configured credentials
    dChan,        \* per connection: type and state of the channel opened on it
    dBound,       \* the channel the shared handler writes to (0: none yet)
    dLast,        \* the request handled last and the calls it caused
    dTurn,        \* per channel: the exec request whose handler is running
    dReqs,        \* requests sent so far
    srvPanicked   \* the server process died of a run-time panic

execVars == <<timeout, callerPc, workerPc, timer, sessOpen, sessOut, sessErr,
              workerRes, ret, outcomes>>

runVars == <<rEntry, rUser, rPass, rCmd, rTimeout, rHandler, rDuration, cliPc,
             srvPc, c2s, s2c, bufOut, bufErr, pendOut, pendErr, outBuf, errBuf,
             exitStatus, execReply, res, rerr, wroteOut, wroteErr, hRc, hErr,
             sentReqs, elapsed, rAttempts, cliConn, bashIO>>

ctlVars == <<kEntry, kPath, kMode, kSize, kLine, kPc>>

copyVars == <<cpEntry, cpBody, cpName, cpDest, cpMode, cpSize, cpPc, cpWire,
              wClosed, wFailed, cpOff, cpIoErr, cpChan, cpBuffered, cpOut,
              cpErr, scpPc, scpStatus, waitPc, waitRes, cpRet>>

decodeVars == <<dStdout, dMessage, dFramed, dPc, dDecoded, dPanicked>>

lifeVars == <<lVariant, lPc, lHasClient, connState, connReleased, chanOpen,
              lPty, lErr, lLast, lCloses, lCalls>>

srvVars == <<sPortOpt, sCfgUser, sCfgPass, sPc, sCallback, sBound,
             sReported, listener, listening, loopPc, sBacklog, sConn,
             sConns, sAuthLog, sFailLogs, sCloseLogged, sSpurious,
             sAcceptedAfter, shutPc>>

sessVars == <<ssOut, ssErr, ssRedir, ssStarted, ssChan, ssConn, ssRes,
              ssRerr, ssWrote, ssLog, ssShell, ssSince,
              ssWriting>>

dispVars == <<dConn, dValid, dChan, dBound, dLast, dReqs, srvPanicked,
              dTurn>>

vars == <<execVars, runVars, ctlVars, copyVars, decodeVars, lifeVars,
         srvVars, sessVars, dispVars>>

----------------------------------------------------------------------------
(* Bounds of the model. *)
MaxTimeout == 1
MaxOut == 2
MaxDuration == 2
MaxStdout == 3
MaxStderr == 1
MaxMsg == 2
MaxFrames == 2
MaxRaw == 4
MaxCalls == 6
MaxShutdowns == 2
MaxConns == 2
MaxFailLogs == 2
MaxSpurious == 1
MaxSessCalls == 4
MaxShellOut == 2
MaxDConns == 2
MaxReqs == 2

(* Error values.  Every error is a record [kind, n]. *)
NoErr == [kind |-> "nil", n |-> 0]
ExitError(st) == [kind |-> "exit", n |-> st]
ConnErr == [kind |-> "conn", n |-> 0]
TimeoutErr(t) == [kind |-> "timeout", n |-> t]

(* Bytes a remote command writes, and the exit statuses it ends with. *)
OutBytes == {97, 98}
ExitStatuses == {0, 1, 23}
Timeouts == (0 - 1) .. MaxTimeout

----------------------------------------------------------------------------
(* Run of the Results{Err, RC, Stdout, Stderr} API: rc is the exit status  *)
(* when session.ssh.Run failed with an *ssh.ExitError and 0 otherwise; the *)
(* error itself is carried in the Results.                                 *)
Run_old(runErr, out, err) ==
    [err    |-> runErr,
     rc     |-> IF runErr.kind = "exit" THEN runErr.n ELSE 0,
     stdout |-> out,
     stderr |-> err]

(* What session.ssh.Run returns for a remote that ended with status st. *)
SshRunErrNeverNil(st) == ExitError(st)

SshRunErr(st) == IF st = 0 THEN NoErr ELSE ExitError(st)

ZeroRet == [rc |-> 0, stdout |-> <<>>, stderr |-> <<>>, err |-> NoErr]
ZeroRes == [err |-> NoErr, rc |-> 0, stdout |-> <<>>, stderr |-> <<>>]

(* The variables of the other parts of the program stay as they are. *)
ExecFrame == UNCHANGED <<runVars, ctlVars, copyVars, decodeVars, lifeVars,
    srvVars, sessVars, dispVars>>

InitExec ==
    /\ timeout \in Timeouts
    /\ callerPc = "start"
    /\ workerPc = "idle"
    /\ timer = "none"
    /\ sessOpen = TRUE
    /\ sessOut = <<>>
    /\ sessErr = <<>>
    /\ workerRes = ZeroRes
    /\ ret = ZeroRet
    /\ outcomes = <<>>

(* case r := <-c: copy the Results into the return values and return; the  *)
(* deferred session.Close() runs.                                          *)
OnResult ==
    /\ ret' = [rc |-> workerRes.rc, stdout |-> workerRes.stdout,
               stderr |-> workerRes.stderr, err |-> workerRes.err]
    /\ outcomes' = Append(outcomes, "results")
    /\ callerPc' = "returned"
    /\ sessOpen' = FALSE

(* case <-time.After(...): set err only and return; the deferred           *)
(* session.Close() runs.                                                   *)
OnDeadlineNoReturn ==
    /\ ret' = [ret EXCEPT !.err = TimeoutErr(timeout)]
    /\ outcomes' = Append(outcomes, "timeout")
    /\ callerPc' = "select"
    /\ sessOpen' = sessOpen

OnDeadlineLeavesOpen ==
    /\ ret' = [ret EXCEPT !.err = TimeoutErr(timeout)]
    /\ outcomes' = Append(outcomes, "timeout")
    /\ callerPc' = "returned"
    /\ sessOpen' = sessOpen

OnDeadlinePartial ==
    /\ ret' = [ret EXCEPT !.err = TimeoutErr(timeout),
                          !.stdout = sessOut, !.stderr = sessErr]
    /\ outcomes' = Append(outcomes, "timeout")
    /\ callerPc' = "returned"
    /\ sessOpen' = FALSE

OnDeadline ==
    /\ ret' = [ret EXCEPT !.err = TimeoutErr(timeout)]
    /\ outcomes' = Append(outcomes, "timeout")
    /\ callerPc' = "returned"
    /\ sessOpen' = FALSE

(* exec up to the loop: defer session.Close(), make the channel, start the *)
(* worker goroutine.                                                       *)
ExecStart ==
    /\ callerPc = "start"
    /\ callerPc' = "select"
    /\ workerPc' = "run"
    /\ UNCHANGED <<timeout, timer, sessOpen, sessOut, sessErr, workerRes, ret,
                   outcomes>>
    /\ ExecFrame

(* Entering the select: time.After(timeout * time.Second) is evaluated. *)
ExecSelect ==
    /\ callerPc = "select"
    /\ timer' = "armed"
    /\ callerPc' = "poll"
    /\ UNCHANGED <<timeout, workerPc, sessOpen, sessOut, sessErr, workerRes,
                   ret, outcomes>>
    /\ ExecFrame

(* The select looks at its cases: one of the ready ones is taken, chosen   *)
(* arbitrarily; with none ready the caller parks on both channels.         *)
ExecPoll ==
    /\ callerPc = "poll"
    /\ \/ /\ workerPc = "send"
          /\ OnResult
          /\ workerPc' = "done"
          /\ UNCHANGED <<timeout, timer, sessOut, sessErr, workerRes>>
       \/ /\ timer = "fired"
          /\ OnDeadline
          /\ timer' = "taken"
          /\ UNCHANGED <<timeout, workerPc, sessOut, sessErr, workerRes>>
       \/ /\ workerPc # "send"
          /\ timer # "fired"
          /\ callerPc' = "parked"
          /\ UNCHANGED <<timeout, workerPc, timer, sessOpen, sessOut, sessErr,
                         workerRes, ret, outcomes>>
    /\ ExecFrame

(* The timer expires.  A caller parked in the select is woken with the     *)
(* deadline case; otherwise the tick waits in the timer's channel.         *)
TimerFire ==
    /\ timer = "armed"
    /\ IF callerPc = "parked"
       THEN /\ OnDeadline
            /\ timer' = "taken"
       ELSE /\ timer' = "fired"
            /\ UNCHANGED <<callerPc, sessOpen, ret, outcomes>>
    /\ UNCHANGED <<timeout, workerPc, sessOut, sessErr, workerRes>>
    /\ ExecFrame

(* The remote command writes one byte to its stdout or stderr while        *)
(* session.ssh.Run is in progress; it lands in the Session's buffers.      *)
RemoteWrite ==
    /\ workerPc = "run"
    /\ sessOpen
    /\ Len(sessOut) + Len(sessErr) < MaxOut
    /\ \E b \in OutBytes :
          \/ sessOut' = Append(sessOut, b) /\ sessErr' = sessErr
          \/ sessErr' = Append(sessErr, b) /\ sessOut' = sessOut
    /\ UNCHANGED <<timeout, callerPc, workerPc, timer, sessOpen, workerRes,
                   ret, outcomes>>
    /\ ExecFrame

(* session.ssh.Run returns in the worker: the remote ended with a status,  *)
(* or the connection failed, or the session was closed under it.           *)
WorkerRun ==
    /\ workerPc = "run"
    /\ \E e \in {SshRunErr(st) : st \in ExitStatuses} \cup {ConnErr} :
          /\ (~sessOpen) => e = ConnErr
          /\ workerRes' = Run_old(e, sessOut, sessErr)
    /\ workerPc' = "send"
    /\ UNCHANGED <<timeout, callerPc, timer, sessOpen, sessOut, sessErr, ret,
                   outcomes>>
    /\ ExecFrame

(* c <- r on the unbuffered channel: it completes only with a receiver     *)
(* parked in the select.                                                   *)
WorkerSend ==
    /\ workerPc = "send"
    /\ callerPc = "parked"
    /\ OnResult
    /\ workerPc' = "done"
    /\ UNCHANGED <<timeout, timer, sessOut, sessErr, workerRes>>
    /\ ExecFrame

NextExec ==
    \/ ExecStart
    \/ ExecSelect
    \/ ExecPoll
    \/ TimerFire
    \/ RemoteWrite
    \/ WorkerRun
    \/ WorkerSend

(* No call of exec: the executor's variables at rest. *)
IdleExec ==
    /\ timeout = 0
    /\ callerPc = "idle"
    /\ workerPc = "idle"
    /\ timer = "none"
    /\ sessOpen = TRUE
    /\ sessOut = <<>>
    /\ sessErr = <<>>
    /\ workerRes = ZeroRes
    /\ ret = ZeroRet
    /\ outcomes = <<>>

----------------------------------------------------------------------------
(* The (Results, error) API, run against the test server.                  *)

(* binary.BigEndian: a uint32 as four bytes, and four bytes as a uint32.   *)
BE32(n) ==
    <<(n \div 16777216) % 256, (n \div 65536) % 256, (n \div 256) % 256,
      n % 256>>
Uint32(b) == b[1] * 16777216 + b[2] * 65536 + b[3] * 256 + b[4]

(* A channel message: data of a stream, a request with its name, payload   *)
(* and want-reply flag, the reply to a request, or the channel's close.    *)
Msg(t, name, data, ok) == [t |-> t, name |-> name, data |-> data, ok |-> ok]

(* Errors of the client library that carry no exit status. *)
DialErr == [kind |-> "dial", n |-> 0]
AuthErr == [kind |-> "auth", n |-> 0]
CmdFailedErr == [kind |-> "cmdfailed", n |-> 0]
ChanOpenErr == [kind |-> "open", n |-> 0]
(* An error returned by a handler's Exec. *)
HandlerErr == [kind |-> "handler", n |-> 0]

(* testOptions: the credentials the test server is configured with. *)
SrvUsername == "joebob"
SrvPassword == "howdy!"

(* config.PasswordCallback of Server. *)
PasswordCallback(user, pass) == user = SrvUsername /\ pass = SrvPassword

(* The inputs of a call. *)
Creds == {<<"joebob", "howdy!">>, <<"joebob", "nope">>, <<"root", "howdy!">>}
Cmds == {<<>>, <<102>>, <<102, 34>>}
MockRCs == {0, 23, 256, 279}
MockTexts == {<<>>, <<109>>}
BashCodes == {0, 1}

MockHandler(rc, out, err) ==
    [kind |-> "mock", rc |-> rc, out |-> out, err |-> err]
EchoHandler == [kind |-> "echo", rc |-> 0, out |-> <<>>, err |-> <<>>]
BashHandler == [kind |-> "bash", rc |-> 0, out |-> <<>>, err |-> <<>>]
Handlers ==
    {MockHandler(rc, o, e) : rc \in MockRCs, o \in MockTexts, e \in MockTexts}
        \cup {EchoHandler, BashHandler}

(* MockHandler.Exec: the scripted output and code, whatever the command. *)
MockExec(h, cmd) == [out |-> h.out, err |-> h.err, rc |-> h.rc, herr |-> NoErr]

(* fmt's %q of a string of printable ASCII: quoted, with " and \ escaped. *)
QuoteByte(b) == IF b \in {34, 92} THEN <<92, b>> ELSE <<b>>
RECURSIVE QuoteBody(_)
QuoteBody(s) ==
    IF s = <<>> THEN <<>> ELSE QuoteByte(Head(s)) \o QuoteBody(Tail(s))
Quote(s) == <<34>> \o QuoteBody(s) \o <<34>>

(* "command is: " *)
CommandIs == <<99, 111, 109, 109, 97, 110, 100, 32, 105, 115, 58, 32>>

(* EchoHandler.Exec: reports the command, returns 0. *)
EchoExec(cmd) ==
    [out |-> CommandIs \o Quote(cmd), err |-> <<>>, rc |-> 0, herr |-> NoErr]

(* The payload of the exit-status request: []byte{0, 0, 0, byte(rc)}. *)
ExitStatusPayload(rc) == <<0, 0, 0, rc % 256>>

(* Run with the last status received as RC, whatever the error is. *)
RunReportsReceivedStatus(runErr, out, err) ==
    [RC     |-> IF exitStatus > 0 THEN exitStatus ELSE 0,
     Stdout |-> out,
     Stderr |-> err]

(* Run of the (Results, error) API: the Results built from the error of    *)
(* session.ssh.Run and the Session's buffers.                              *)
Run(runErr, out, err) ==
    [RC     |-> IF runErr.kind = "exit" THEN runErr.n ELSE 0,
     Stdout |-> out,
     Stderr |-> err]

ZeroResults == [RC |-> 0, Stdout |-> <<>>, Stderr |-> <<>>]

(* The variables of the other parts of the program stay as they are. *)
RunFrame == UNCHANGED <<execVars, ctlVars, copyVars, decodeVars, lifeVars,
    srvVars, sessVars, dispVars>>

(* The pipes between the bash process and the goroutines that copy its    *)
(* output to the channel, and the bytes the closed channel refused.        *)
NoBashIO == [out |-> <<>>, err |-> <<>>, lostOut |-> <<>>, lostErr |-> <<>>]

(* A call that has not yet dialled, opened a channel or sent a request. *)
NoAttempts == [dial |-> 0, chan |-> 0, exec |-> 0]

InitRun ==
    /\ rEntry \in {"ExecPassword", "Run"}
    /\ \E c \in Creds : rUser = c[1] /\ rPass = c[2]
    /\ rCmd \in Cmds
    /\ rTimeout \in 1 .. MaxTimeout
    /\ rHandler \in Handlers
    /\ rDuration \in IF rHandler.kind = "bash" THEN 0 .. MaxDuration ELSE {0}
    /\ cliPc = "start"
    /\ srvPc = "listen"
    /\ c2s = <<>>
    /\ s2c = <<>>
    /\ bufOut = FALSE
    /\ bufErr = FALSE
    /\ pendOut = <<>>
    /\ pendErr = <<>>
    /\ outBuf = <<>>
    /\ errBuf = <<>>
    /\ exitStatus = -1
    /\ execReply = "none"
    /\ res = ZeroResults
    /\ rerr = NoErr
    /\ wroteOut = <<>>
    /\ wroteErr = <<>>
    /\ hRc = 0
    /\ hErr = NoErr
    /\ sentReqs = <<>>
    /\ elapsed = 0
    /\ rAttempts = NoAttempts
    /\ cliConn = "none"
    /\ bashIO = NoBashIO

(* No call of the (Results, error) API: its variables at rest. *)
IdleRun ==
    /\ rEntry = "none"
    /\ rUser = ""
    /\ rPass = ""
    /\ rCmd = <<>>
    /\ rTimeout = 0
    /\ rHandler = EchoHandler
    /\ rDuration = 0
    /\ cliPc = "idle"
    /\ srvPc = "idle"
    /\ c2s = <<>>
    /\ s2c = <<>>
    /\ bufOut = FALSE
    /\ bufErr = FALSE
    /\ pendOut = <<>>
    /\ pendErr = <<>>
    /\ outBuf = <<>>
    /\ errBuf = <<>>
    /\ exitStatus = -1
    /\ execReply = "none"
    /\ res = ZeroResults
    /\ rerr = NoErr
    /\ wroteOut = <<>>
    /\ wroteErr = <<>>
    /\ hRc = 0
    /\ hErr = NoErr
    /\ sentReqs = <<>>
    /\ elapsed = 0
    /\ rAttempts = NoAttempts
    /\ cliConn = "none"
    /\ bashIO = NoBashIO

(* A dial that is tried again after a failure, instead of returned. *)
DialPasswordRetries ==
    /\ cliPc = "start"
    /\ \/ /\ cliPc' = "start"
          /\ srvPc' = srvPc
       \/ /\ PasswordCallback(rUser, rPass)
          /\ cliPc' = "dialed"
          /\ srvPc' = "conn"
    /\ cliConn' = IF cliPc' = "dialed" THEN "open" ELSE cliConn
    /\ UNCHANGED bashIO
    /\ rAttempts' = [rAttempts EXCEPT !.dial = @ + 1]
    /\ UNCHANGED <<rEntry, rUser, rPass, rCmd, rTimeout, rHandler, rDuration,
                   c2s, s2c, bufOut, bufErr, pendOut, pendErr, outBuf, errBuf,
                   exitStatus, execReply, res, rerr, wroteOut, wroteErr, hRc,
                   hErr, sentReqs, elapsed>>
    /\ RunFrame

(* DialPassword up to the handshake: net.DialTimeout may fail; then the    *)
(* server's password check decides ssh.NewClientConn.  A failure is        *)
(* returned by the entry point with empty Results.                         *)
DialPassword ==
    /\ cliPc = "start"
    /\ \/ /\ cliPc' = "returned"
          /\ res' = ZeroResults
          /\ rerr' = DialErr
          /\ srvPc' = srvPc
       \/ /\ PasswordCallback(rUser, rPass)
          /\ cliPc' = "dialed"
          /\ srvPc' = "conn"
          /\ UNCHANGED <<res, rerr>>
       \/ /\ ~PasswordCallback(rUser, rPass)
          /\ cliPc' = "returned"
          /\ res' = ZeroResults
          /\ rerr' = AuthErr
          /\ srvPc' = srvPc
    /\ UNCHANGED <<rEntry, rUser, rPass, rCmd, rTimeout, rHandler, rDuration,
                   c2s, s2c, bufOut, bufErr, pendOut, pendErr, outBuf, errBuf,
                   exitStatus, execReply, wroteOut, wroteErr, hRc, hErr,
                   sentReqs, elapsed>>
    /\ cliConn' = IF cliPc' = "dialed" THEN "open" ELSE cliConn
    /\ UNCHANGED bashIO
    /\ rAttempts' = [rAttempts EXCEPT !.dial = @ + 1]
    /\ RunFrame

(* NewSession: the client opens a "session" channel; handleChannel accepts *)
(* it, binds the handler to it and starts the request loop.  When the      *)
(* channel cannot be opened client.NewSession fails: the error is returned *)
(* with empty Results, no request is sent and the client is not closed.    *)
NewSession ==
    /\ cliPc = "dialed"
    /\ srvPc = "conn"
    /\ \/ /\ cliPc' = "session"
          /\ srvPc' = "chan"
          /\ UNCHANGED <<res, rerr>>
       \/ /\ cliPc' = "returned"
          /\ res' = ZeroResults
          /\ rerr' = ChanOpenErr
          /\ UNCHANGED srvPc
    /\ UNCHANGED <<rEntry, rUser, rPass, rCmd, rTimeout, rHandler, rDuration,
                   c2s, s2c, bufOut, bufErr, pendOut, pendErr, outBuf, errBuf,
                   exitStatus, execReply, wroteOut, wroteErr, hRc,
                   hErr, sentReqs, elapsed>>
    /\ rAttempts' = [rAttempts EXCEPT !.chan = @ + 1]
    /\ UNCHANGED <<cliConn, bashIO>>
    /\ RunFrame

(* Session.Buffered: both streams are captured in the Session's buffers. *)
Buffered ==
    /\ bufOut' = TRUE
    /\ bufErr' = TRUE

(* ExecPassword after the dial: session.Buffered(), then Run, whose        *)
(* session.ssh.Run sends the exec request (a length-prefixed command) and  *)
(* waits.  Entry "Run" is Run on a Session that was not buffered.          *)
StartRun ==
    /\ cliPc = "session"
    /\ IF rEntry = "ExecPassword" THEN Buffered ELSE UNCHANGED <<bufOut, bufErr>>
    /\ c2s' = Append(c2s, Msg("req", "exec", BE32(Len(rCmd)) \o rCmd, TRUE))
    /\ cliPc' = "started"
    /\ UNCHANGED <<rEntry, rUser, rPass, rCmd, rTimeout, rHandler, rDuration,
                   srvPc, s2c, pendOut, pendErr, outBuf, errBuf, exitStatus,
                   execReply, res, rerr, wroteOut, wroteErr, hRc, hErr,
                   sentReqs, elapsed>>
    /\ rAttempts' = [rAttempts EXCEPT !.exec = @ + 1]
    /\ UNCHANGED <<cliConn, bashIO>>
    /\ RunFrame

(* What a handler's writes put on the channel. *)
DataMsgs(out, err) ==
    (IF out = <<>> THEN <<>> ELSE <<Msg("data", "stdout", out, FALSE)>>)
        \o (IF err = <<>> THEN <<>> ELSE <<Msg("data", "stderr", err, FALSE)>>)

(* A handler's Exec that runs to its end at once: its output is on the     *)
(* channel and its code and error are with the dispatcher.                 *)
HandlerReturns(r) ==
    /\ wroteOut' = wroteOut \o r.out
    /\ wroteErr' = wroteErr \o r.err
    /\ s2c' = s2c \o DataMsgs(r.out, r.err)
    /\ hRc' = r.rc
    /\ hErr' = r.herr
    /\ srvPc' = "handled"

(* The request loop of handleChannel takes an "exec" request: the command  *)
(* is the payload after its first 4 bytes, and the handler's Exec is       *)
(* called with it.  A BashHandler starts bash, or fails to start its pty.  *)
HandleExec ==
    /\ srvPc = "chan"
    /\ c2s # <<>>
    /\ Head(c2s).name = "exec"
    /\ c2s' = Tail(c2s)
    /\ LET cmd == SubSeq(Head(c2s).data, 5, Len(Head(c2s).data)) IN
          \/ /\ rHandler.kind = "mock"
             /\ HandlerReturns(MockExec(rHandler, cmd))
          \/ /\ rHandler.kind = "echo"
             /\ HandlerReturns(EchoExec(cmd))
          \/ /\ rHandler.kind = "bash"
             /\ HandlerReturns([out |-> <<>>, err |-> <<>>, rc |-> 0,
                                herr |-> HandlerErr])
          \/ /\ rHandler.kind = "bash"
             /\ srvPc' = "execing"
             /\ UNCHANGED <<wroteOut, wroteErr, s2c, hRc, hErr>>
    /\ UNCHANGED <<rEntry, rUser, rPass, rCmd, rTimeout, rHandler, rDuration,
                   cliPc, bufOut, bufErr, pendOut, pendErr, outBuf, errBuf,
                   exitStatus, execReply, res, rerr, sentReqs, elapsed>>
    /\ UNCHANGED <<rAttempts, cliConn, bashIO>>
    /\ RunFrame

(* The bash process of a BashHandler writes a byte to its stdout or to its *)
(* stderr: basher.Stdout and basher.Stderr are no files, so each is a pipe *)
(* that a goroutine of os/exec copies to the channel or to its Stderr().   *)
BashWrite ==
    /\ srvPc = "execing"
    /\ Len(wroteOut) + Len(wroteErr) + Len(bashIO.out) + Len(bashIO.err)
          < MaxOut
    /\ \E b \in OutBytes :
          \/ bashIO' = [bashIO EXCEPT !.out = Append(@, b)]
          \/ bashIO' = [bashIO EXCEPT !.err = Append(@, b)]
    /\ UNCHANGED <<rEntry, rUser, rPass, rCmd, rTimeout, rHandler, rDuration,
                   cliPc, srvPc, c2s, s2c, bufOut, bufErr, pendOut, pendErr,
                   outBuf, errBuf, exitStatus, execReply, res, rerr, wroteOut,
                   wroteErr, hRc, hErr, sentReqs, elapsed>>
    /\ UNCHANGED <<rAttempts, cliConn>>
    /\ RunFrame

(* A copying goroutine moves a byte of the bash process to the channel.    *)
(* basher.Process.Wait() does not wait for these goroutines, so a byte can *)
(* reach the channel after Exec returned, after the exit-status request    *)
(* and after the reply; once the dispatcher closed the channel the write   *)
(* fails, the copy ends and what the pipe still held is lost.              *)
BashCopy ==
    /\ srvPc \in {"execing", "handled", "statusSent", "replied", "closed"}
    /\ \/ /\ bashIO.out # <<>>
          /\ IF srvPc = "closed"
             THEN /\ bashIO' = [bashIO EXCEPT !.out = <<>>,
                                     !.lostOut = bashIO.out]
                  /\ UNCHANGED <<wroteOut, s2c>>
             ELSE /\ bashIO' = [bashIO EXCEPT !.out = Tail(@)]
                  /\ wroteOut' = Append(wroteOut, Head(bashIO.out))
                  /\ s2c' = Append(s2c, Msg("data", "stdout",
                                            <<Head(bashIO.out)>>, FALSE))
          /\ UNCHANGED wroteErr
       \/ /\ bashIO.err # <<>>
          /\ IF srvPc = "closed"
             THEN /\ bashIO' = [bashIO EXCEPT !.err = <<>>,
                                     !.lostErr = bashIO.err]
                  /\ UNCHANGED <<wroteErr, s2c>>
             ELSE /\ bashIO' = [bashIO EXCEPT !.err = Tail(@)]
                  /\ wroteErr' = Append(wroteErr, Head(bashIO.err))
                  /\ s2c' = Append(s2c, Msg("data", "stderr",
                                            <<Head(bashIO.err)>>, FALSE))
          /\ UNCHANGED wroteOut
    /\ UNCHANGED <<rEntry, rUser, rPass, rCmd, rTimeout, rHandler, rDuration,
                   cliPc, srvPc, c2s, bufOut, bufErr, pendOut, pendErr, outBuf,
                   errBuf, exitStatus, execReply, res, rerr, hRc, hErr,
                   sentReqs, elapsed>>
    /\ UNCHANGED <<rAttempts, cliConn>>
    /\ RunFrame

(* A second passes while the bash process runs. *)
BashTick ==
    /\ srvPc = "execing"
    /\ elapsed < rDuration
    /\ elapsed' = elapsed + 1
    /\ UNCHANGED <<rEntry, rUser, rPass, rCmd, rTimeout, rHandler, rDuration,
                   cliPc, srvPc, c2s, s2c, bufOut, bufErr, pendOut, pendErr,
                   outBuf, errBuf, exitStatus, execReply, res, rerr, wroteOut,
                   wroteErr, hRc, hErr, sentReqs>>
    /\ UNCHANGED <<rAttempts, cliConn, bashIO>>
    /\ RunFrame

(* basher.Process.Wait returns: BashHandler.Exec returns the exit code, or *)
(* the code of a nil ProcessState (-1) and an error when the wait failed.  *)
BashWait ==
    /\ srvPc = "execing"
    /\ elapsed = rDuration
    /\ \/ /\ hRc' \in BashCodes
          /\ hErr' = NoErr
       \/ /\ hRc' = -1
          /\ hErr' = HandlerErr
    /\ srvPc' = "handled"
    /\ UNCHANGED <<rEntry, rUser, rPass, rCmd, rTimeout, rHandler, rDuration,
                   cliPc, c2s, s2c, bufOut, bufErr, pendOut, pendErr, outBuf,
                   errBuf, exitStatus, execReply, res, rerr, wroteOut,
                   wroteErr, sentReqs, elapsed>>
    /\ UNCHANGED <<rAttempts, cliConn, bashIO>>
    /\ RunFrame

(* handleChannel after the handler's Exec: the exit-status request with    *)
(* want-reply false (line 280).                                            *)
SendExitStatus ==
    /\ srvPc = "handled"
    /\ LET exit == Msg("req", "exit-status", ExitStatusPayload(hRc), FALSE) IN
          /\ sentReqs' = Append(sentReqs, exit)
          /\ s2c' = Append(s2c, exit)
    /\ srvPc' = "statusSent"
    /\ UNCHANGED <<rEntry, rUser, rPass, rCmd, rTimeout, rHandler, rDuration,
                   cliPc, c2s, bufOut, bufErr, pendOut, pendErr, outBuf,
                   errBuf, exitStatus, execReply, res, rerr, wroteOut,
                   wroteErr, hRc, hErr, elapsed>>
    /\ UNCHANGED <<rAttempts, cliConn, bashIO>>
    /\ RunFrame

(* The reply to the exec request (line 284): false when the handler        *)
(* returned an error.                                                      *)
ReplyExec ==
    /\ srvPc = "statusSent"
    /\ s2c' = Append(s2c, Msg("reply", "exec", <<>>, hErr = NoErr))
    /\ srvPc' = "replied"
    /\ UNCHANGED <<rEntry, rUser, rPass, rCmd, rTimeout, rHandler, rDuration,
                   cliPc, c2s, bufOut, bufErr, pendOut, pendErr, outBuf,
                   errBuf, exitStatus, execReply, res, rerr, wroteOut,
                   wroteErr, hRc, hErr, sentReqs, elapsed>>
    /\ UNCHANGED <<rAttempts, cliConn, bashIO>>
    /\ RunFrame

(* connection.Close() (line 285); the second req.Reply, after the switch,  *)
(* finds the channel closed and sends nothing.                             *)
CloseChannel ==
    /\ srvPc = "replied"
    /\ s2c' = Append(s2c, Msg("close", "", <<>>, FALSE))
    /\ srvPc' = "closed"
    /\ UNCHANGED <<rEntry, rUser, rPass, rCmd, rTimeout, rHandler, rDuration,
                   cliPc, c2s, bufOut, bufErr, pendOut, pendErr, outBuf,
                   errBuf, exitStatus, execReply, res, rerr, wroteOut,
                   wroteErr, hRc, hErr, sentReqs, elapsed>>
    /\ UNCHANGED <<rAttempts, cliConn, bashIO>>
    /\ RunFrame

(* The client takes the next message of the channel while session.ssh.Run  *)
(* is in progress.  Data is held by the channel; an exit-status request    *)
(* sets the status; a false reply makes session.ssh.Run fail at once; the  *)
(* close ends the streams: what was captured is in the buffers that        *)
(* Buffered installed, and Run returns with the error of the status.       *)
ClientRecv ==
    /\ cliPc = "started"
    /\ s2c # <<>>
    /\ s2c' = Tail(s2c)
    /\ LET m == Head(s2c) IN
          \/ /\ m.t = "data"
             /\ pendOut' = IF m.name = "stdout" THEN pendOut \o m.data ELSE pendOut
             /\ pendErr' = IF m.name = "stderr" THEN pendErr \o m.data ELSE pendErr
             /\ UNCHANGED <<cliPc, outBuf, errBuf, exitStatus, execReply, res,
                            rerr>>
          \/ /\ m.t = "req"
             /\ exitStatus' = IF m.name = "exit-status" THEN Uint32(m.data)
                                                        ELSE exitStatus
             /\ UNCHANGED <<cliPc, pendOut, pendErr, outBuf, errBuf, execReply,
                            res, rerr>>
          \/ /\ m.t = "reply"
             /\ m.ok
             /\ execReply' = "ok"
             /\ UNCHANGED <<cliPc, pendOut, pendErr, outBuf, errBuf,
                            exitStatus, res, rerr>>
          \/ /\ m.t = "reply"
             /\ ~m.ok
             /\ execReply' = "fail"
             /\ res' = Run(CmdFailedErr, outBuf, errBuf)
             /\ rerr' = CmdFailedErr
             /\ cliPc' = "returned"
             /\ UNCHANGED <<pendOut, pendErr, outBuf, errBuf, exitStatus>>
          \/ /\ m.t = "close"
             /\ outBuf' = IF bufOut THEN outBuf \o pendOut ELSE outBuf
             /\ errBuf' = IF bufErr THEN errBuf \o pendErr ELSE errBuf
             /\ res' = Run(SshRunErr(exitStatus), outBuf', errBuf')
             /\ rerr' = SshRunErr(exitStatus)
             /\ cliPc' = "returned"
             /\ UNCHANGED <<pendOut, pendErr, exitStatus, execReply>>
    /\ UNCHANGED <<rEntry, rUser, rPass, rCmd, rTimeout, rHandler, rDuration,
                   srvPc, c2s, bufOut, bufErr, wroteOut, wroteErr, hRc, hErr,
                   sentReqs, elapsed>>
    /\ UNCHANGED <<rAttempts, cliConn, bashIO>>
    /\ RunFrame

(* Session.Close of the (Results, error) API, called by the caller of Run  *)
(* on the Session it dialed: the channel and the client are closed.  The   *)
(* entry points ExecPassword, ExecText and ExecAgent return the Results of *)
(* Run and have no such call.  The caller needs a *Session to call it on:  *)
(* when NewSession failed it returned nil for the Session, no Close can    *)
(* reach the ssh.Client, and the connection stays open.                    *)
CallerClose ==
    /\ rEntry = "Run"
    /\ cliPc = "returned"
    /\ rAttempts.exec = 1
    /\ cliConn = "open"
    /\ cliConn' = "closed"
    /\ UNCHANGED <<rEntry, rUser, rPass, rCmd, rTimeout, rHandler, rDuration,
                   cliPc, srvPc, c2s, s2c, bufOut, bufErr, pendOut, pendErr,
                   outBuf, errBuf, exitStatus, execReply, res, rerr, wroteOut,
                   wroteErr, hRc, hErr, sentReqs, elapsed, rAttempts, bashIO>>
    /\ RunFrame

NextRun ==
    \/ DialPassword
    \/ NewSession
    \/ StartRun
    \/ HandleExec
    \/ BashWrite
    \/ BashCopy
    \/ BashTick
    \/ BashWait
    \/ SendExitStatus
    \/ ReplyExec
    \/ CloseChannel
    \/ ClientRecv
    \/ CallerClose

----------------------------------------------------------------------------
(* The SCP control line: CopyFile and the Fprintf of Copy.                 *)

CtlFrame == UNCHANGED <<execVars, runVars, copyVars, decodeVars, lifeVars,
    srvVars, sessVars, dispVars>>

(* The digits of fmt's %o and %d for a number that is not negative. *)
RECURSIVE OctDigits(_)
OctDigits(n) ==
    IF n < 8 THEN <<48 + n>> ELSE OctDigits(n \div 8) \o <<48 + (n % 8)>>

RECURSIVE DecDigits(_)
DecDigits(n) ==
    IF n < 10 THEN <<48 + n>> ELSE DecDigits(n \div 10) \o <<48 + (n % 10)>>

(* %#o of an os.FileMode: the octal digits, led by a 0 unless they start   *)
(* with one.                                                               *)
FmtSharpO(mode) ==
    IF OctDigits(mode)[1] = 48 THEN OctDigits(mode)
                               ELSE <<48>> \o OctDigits(mode)

(* %d of an int64. *)
FmtD(size) == IF size < 0 THEN <<45>> \o DecDigits(0 - size) ELSE DecDigits(size)

(* fmt.Fprintf(w, "C%#o %d %s\n", mode, size, filename) *)
ControlLineNoSharp(mode, size, filename) ==
    <<67>> \o OctDigits(mode) \o <<32>> \o FmtD(size) \o <<32>> \o filename \o <<10>>

ControlLine(mode, size, filename) ==
    <<67>> \o FmtSharpO(mode) \o <<32>> \o FmtD(size) \o <<32>> \o filename
        \o <<10>>

(* filepath.Base on a system whose separator is "/". *)
RECURSIVE StripSlashes(_)
StripSlashes(path) ==
    IF path # <<>> /\ path[Len(path)] = 47
    THEN StripSlashes(SubSeq(path, 1, Len(path) - 1))
    ELSE path

RECURSIVE LastElement(_)
LastElement(path) ==
    IF path = <<>> \/ path[Len(path)] = 47
    THEN <<>>
    ELSE LastElement(SubSeq(path, 1, Len(path) - 1)) \o <<path[Len(path)]>>

Base(path) ==
    IF path = <<>> THEN <<46>>
    ELSE IF LastElement(StripSlashes(path)) = <<>> THEN <<47>>
    ELSE LastElement(StripSlashes(path))

(* The file name CopyFile hands to Copy: Session.CopyFile passes its       *)
(* filename argument as it is, Connection.CopyFile passes its base name.   *)
SessionCopyFileName(filename) == filename
ConnectionCopyFileName(filename) == Base(filename)

(* The inputs: who writes the line, the path or name, the mode, the size.  *)
CtlEntries == {"Session.CopyFile", "Connection.CopyFile", "Copy"}
CtlPaths ==
    {<<97>>, <<97, 32, 98>>, <<100, 47, 97>>, <<47, 100, 47, 97>>,
     <<46, 47, 97>>, <<100, 47>>}
CtlModes == {0, 420, 493, 384, 4516, 8389101}
CtlSizes == {0, 5, 12, 100}

InitCtl ==
    /\ kEntry \in CtlEntries
    /\ kPath \in CtlPaths
    /\ kMode \in CtlModes
    /\ kSize \in CtlSizes
    /\ kLine = <<>>
    /\ kPc = "start"

IdleCtl ==
    /\ kEntry = "none"
    /\ kPath = <<>>
    /\ kMode = 0
    /\ kSize = 0
    /\ kLine = <<>>
    /\ kPc = "idle"

(* The control line is written: by Copy called with a name, or by Copy     *)
(* called from CopyFile with the name CopyFile derives from its path.      *)
WriteControlLine ==
    /\ kPc = "start"
    /\ kLine' = ControlLine(kMode, kSize,
                    IF kEntry = "Session.CopyFile"
                    THEN SessionCopyFileName(kPath)
                    ELSE IF kEntry = "Connection.CopyFile"
                    THEN ConnectionCopyFileName(kPath)
                    ELSE kPath)
    /\ kPc' = "written"
    /\ UNCHANGED <<kEntry, kPath, kMode, kSize>>
    /\ CtlFrame

NextCtl == WriteControlLine

----------------------------------------------------------------------------
(* Copy against a remote scp: Session.Copy (src/client.go:488-547) and     *)
(* Connection.Copy (src/unnamed/part_001:280-339), which differ in the     *)
(* test on the error of io.Copy.  Every call that blocks is a step of its  *)
(* own, so that the remote's exit, the end of the channel and the return   *)
(* of Wait can fall between any two of them.                               *)

CopyFrame == UNCHANGED <<execVars, runVars, ctlVars, decodeVars, lifeVars,
    srvVars, sessVars, dispVars>>

(* What Copy gives back: nil, an error, or a CmdError{RC, Stdout, Stderr}. *)
(* "panic" stands for the run-time panic that ends Copy without a return   *)
(* value.                                                                  *)
CopyRet(kind, rc, out, err) ==
    [kind |-> kind, rc |-> rc, stdout |-> out, stderr |-> err]
NotReturned == CopyRet("none", 0, <<>>, <<>>)
NilRet == CopyRet("nil", 0, <<>>, <<>>)
CmdError(rc, out, err) == CopyRet("CmdError", rc, out, err)
PipeErrRet == CopyRet("pipe", 0, <<>>, <<>>)
StartErrRet == CopyRet("start", 0, <<>>, <<>>)
CopyErrRet == CopyRet("copy error", 0, <<>>, <<>>)
WaitErrRet == CopyRet("wait", 0, <<>>, <<>>)
IndexPanic == CopyRet("panic", 0, <<>>, <<>>)

(* What is written on the channel. *)
Wire(ev, data) == [ev |-> ev, data |-> data]

(* fmt.Sprintf("/usr/bin/env scp -tq %s", destination) *)
ScpCmd(destination) ==
    <<47, 117, 115, 114, 47, 98, 105, 110, 47, 101, 110, 118, 32,
      115, 99, 112, 32, 45, 116, 113, 32>> \o destination

(* bytes.FieldsFunc(b, func(c rune) bool { return c < 3 }) *)
RECURSIVE DropMarkers(_)
DropMarkers(b) ==
    IF b # <<>> /\ b[1] < 3 THEN DropMarkers(Tail(b)) ELSE b

RECURSIVE TakeField(_)
TakeField(b) ==
    IF b = <<>> \/ b[1] < 3 THEN <<>> ELSE <<b[1]>> \o TakeField(Tail(b))

RECURSIVE FieldsFunc(_)
FieldsFunc(b) ==
    IF DropMarkers(b) = <<>> THEN <<>>
    ELSE <<TakeField(DropMarkers(b))>>
         \o FieldsFunc(SubSeq(DropMarkers(b),
                              Len(TakeField(DropMarkers(b))) + 1,
                              Len(DropMarkers(b))))

(* strings.TrimRight(stdout, "\n") *)
TrimRightNothing(s) == s

RECURSIVE TrimRight(_)
TrimRight(s) ==
    IF s # <<>> /\ s[Len(s)] = 10 THEN TrimRight(SubSeq(s, 1, Len(s) - 1))
    ELSE s

(* parts[0] of an empty parts: index out of range. *)
DecodePanics(stdout) ==
    Len(stdout) > 2 /\ FieldsFunc(Tail(stdout)) = <<>>

(* The Stdout of the CmdError, where parts[0] exists. *)
DecodeStdout(stdout) ==
    IF Len(stdout) > 2 THEN TrimRight(FieldsFunc(Tail(stdout))[1])
    ELSE stdout

(* Lines 521-546: what Copy makes of the error it received from Wait. *)
CopyResult(err, out, errb) ==
    IF err = NoErr THEN NilRet
    ELSE IF err.kind = "exit"
         THEN IF DecodePanics(out) THEN IndexPanic
              ELSE CmdError(err.n, DecodeStdout(out), errb)
    ELSE WaitErrRet

(* Inputs of Copy and behaviour of the remote. *)
CopyEntries == {"Session.Copy", "Connection.Copy"}
CopyBodies == {<<>>, <<120, 121>>}
ScpBytes == {0, 1, 2, 10, 65}
ScpErrBytes == {69}
ScpStatuses == {0, 1, 2}

InitCopy ==
    /\ cpEntry \in CopyEntries
    /\ cpBody \in CopyBodies
    /\ cpName = <<97>>
    /\ cpDest = <<116>>
    /\ cpMode = 420
    /\ cpSize = Len(cpBody)
    /\ cpPc = "start"
    /\ cpWire = <<>>
    /\ wClosed = FALSE
    /\ wFailed = FALSE
    /\ cpOff = 0
    /\ cpIoErr = "none"
    /\ cpChan = "none"
    /\ cpBuffered = FALSE
    /\ cpOut = <<>>
    /\ cpErr = <<>>
    /\ scpPc = "none"
    /\ scpStatus = 0 - 1
    /\ waitPc = "idle"
    /\ waitRes = NoErr
    /\ cpRet = NotReturned

IdleCopy ==
    /\ cpEntry = "none"
    /\ cpBody = <<>>
    /\ cpName = <<>>
    /\ cpDest = <<>>
    /\ cpMode = 0
    /\ cpSize = 0
    /\ cpPc = "idle"
    /\ cpWire = <<>>
    /\ wClosed = FALSE
    /\ wFailed = FALSE
    /\ cpOff = 0
    /\ cpIoErr = "none"
    /\ cpChan = "none"
    /\ cpBuffered = FALSE
    /\ cpOut = <<>>
    /\ cpErr = <<>>
    /\ scpPc = "none"
    /\ scpStatus = 0 - 1
    /\ waitPc = "idle"
    /\ waitRes = NoErr
    /\ cpRet = NotReturned

(* Lines 489-507: StdinPipe, Buffered, Start, and the goroutine that       *)
(* waits for the remote.  When Start fails, w.Close() (line 499) sends the *)
(* EOF of the write side if the remote refused the request, and can send   *)
(* nothing when the connection is lost.                                    *)
CopyBegin ==
    /\ cpPc = "start"
    /\ \/ /\ cpRet' = PipeErrRet
          /\ cpPc' = "returned"
          /\ UNCHANGED <<cpBuffered, cpWire, wClosed, wFailed, cpChan, scpPc,
                         waitPc>>
       \/ /\ cpBuffered' = TRUE
          /\ \/ /\ cpWire' = <<Wire("exec", ScpCmd(cpDest)), Wire("eof", <<>>)>>
                /\ UNCHANGED wFailed
             \/ /\ cpWire' = <<Wire("exec", ScpCmd(cpDest))>>
                /\ wFailed' = TRUE
          /\ wClosed' = TRUE
          /\ cpRet' = StartErrRet
          /\ cpPc' = "returned"
          /\ UNCHANGED <<cpChan, scpPc, waitPc>>
       \/ /\ cpBuffered' = TRUE
          /\ cpWire' = <<Wire("exec", ScpCmd(cpDest))>>
          /\ cpChan' = "open"
          /\ scpPc' = "running"
          /\ waitPc' = "wait"
          /\ cpPc' = "stream"
          /\ UNCHANGED <<wClosed, wFailed, cpRet>>
    /\ UNCHANGED <<cpEntry, cpBody, cpName, cpDest, cpMode, cpSize, cpOff,
                   cpIoErr, cpOut, cpErr, scpStatus, waitRes>>
    /\ CopyFrame

(* A write to w, or its Close, puts its event on the channel while the     *)
(* client's end of the channel is open, and fails and puts nothing once    *)
(* the channel was closed by the remote or with the lost connection.       *)
Put(ev) == IF cpChan = "open" THEN Append(cpWire, ev) ELSE cpWire

(* The error of a Write to the closed channel: io.EOF, or the error of the *)
(* transport when the connection was lost.                                 *)
WriteErrs == IF scpPc = "lost" THEN {"eof", "other"} ELSE {"eof"}

(* The test on the error of io.Copy that decides whether Copy gives up:    *)
(* err != nil in Session.Copy, err != nil && err != io.EOF in              *)
(* Connection.Copy.                                                        *)
CopyFailed(entry, e) ==
    IF entry = "Connection.Copy" THEN e # "none" /\ e # "eof"
    ELSE e # "none"

(* Line 510: fmt.Fprintf writes the control line; its error is dropped. *)
CopyControl ==
    /\ cpPc = "stream"
    /\ cpWire' = Put(Wire("data", ControlLine(cpMode, cpSize, cpName)))
    /\ wFailed' = (wFailed \/ cpChan # "open")
    /\ cpPc' = "body"
    /\ UNCHANGED <<cpEntry, cpBody, cpName, cpDest, cpMode, cpSize, wClosed,
                   cpOff, cpIoErr, cpChan, cpBuffered, cpOut, cpErr, scpPc,
                   scpStatus, waitPc, waitRes, cpRet>>
    /\ CopyFrame

(* Line 511: one turn of io.Copy(w, r).  r yields its next n bytes and     *)
(* they are written to w; or r is at its end and io.Copy returns nil; or r *)
(* fails.  A Write that fails, or a failure of r, ends io.Copy with that   *)
(* error, and the test of the entry point decides between giving up and    *)
(* going on to the end marker.                                             *)
CopyBody ==
    /\ cpPc = "body"
    /\ \/ /\ cpOff < Len(cpBody)
          /\ cpChan = "open"
          /\ \E n \in 1 .. (Len(cpBody) - cpOff) :
                /\ cpWire' = Append(cpWire,
                      Wire("data", SubSeq(cpBody, cpOff + 1, cpOff + n)))
                /\ cpOff' = cpOff + n
          /\ UNCHANGED <<cpPc, cpIoErr, wFailed>>
       \/ /\ cpOff < Len(cpBody)
          /\ cpChan # "open"
          /\ \E e \in WriteErrs :
                /\ cpIoErr' = e
                /\ cpPc' = IF CopyFailed(cpEntry, e) THEN "abort" ELSE "marker"
          /\ wFailed' = TRUE
          /\ UNCHANGED <<cpWire, cpOff>>
       \/ /\ cpOff = Len(cpBody)
          /\ cpPc' = "marker"
          /\ UNCHANGED <<cpWire, cpOff, cpIoErr, wFailed>>
       \/ /\ cpIoErr' = "read"
          /\ cpPc' = IF CopyFailed(cpEntry, "read") THEN "abort" ELSE "marker"
          /\ UNCHANGED <<cpWire, cpOff, wFailed>>
    /\ UNCHANGED <<cpEntry, cpBody, cpName, cpDest, cpMode, cpSize, wClosed,
                   cpChan, cpBuffered, cpOut, cpErr, scpPc, scpStatus, waitPc,
                   waitRes, cpRet>>
    /\ CopyFrame

(* Lines 512-513: w.Close() and the return of the wrapped copy error. *)
CopyAbort ==
    /\ cpPc = "abort"
    /\ cpWire' = Put(Wire("eof", <<>>))
    /\ wClosed' = TRUE
    /\ wFailed' = (wFailed \/ cpChan # "open")
    /\ cpRet' = CopyErrRet
    /\ cpPc' = "returned"
    /\ UNCHANGED <<cpEntry, cpBody, cpName, cpDest, cpMode, cpSize, cpOff,
                   cpIoErr, cpChan, cpBuffered, cpOut, cpErr, scpPc,
                   scpStatus, waitPc, waitRes>>
    /\ CopyFrame

(* A Copy that goes from the body to Close without the end marker. *)
CopyMarkerSkipped ==
    /\ cpPc = "marker"
    /\ cpPc' = "close"
    /\ UNCHANGED <<cpEntry, cpBody, cpName, cpDest, cpMode, cpSize, cpWire,
                   wClosed, wFailed, cpOff, cpIoErr, cpChan, cpBuffered,
                   cpOut, cpErr, scpPc, scpStatus, waitPc, waitRes, cpRet>>
    /\ CopyFrame

(* Line 516: fmt.Fprint writes the end-of-command marker; its error is     *)
(* dropped.                                                                *)
CopyMarker ==
    /\ cpPc = "marker"
    /\ cpWire' = Put(Wire("data", <<0>>))
    /\ wFailed' = (wFailed \/ cpChan # "open")
    /\ cpPc' = "close"
    /\ UNCHANGED <<cpEntry, cpBody, cpName, cpDest, cpMode, cpSize, wClosed,
                   cpOff, cpIoErr, cpChan, cpBuffered, cpOut, cpErr, scpPc,
                   scpStatus, waitPc, waitRes, cpRet>>
    /\ CopyFrame

(* Line 517: w.Close() ends the stream; its error is dropped. *)
CopyClose ==
    /\ cpPc = "close"
    /\ cpWire' = Put(Wire("eof", <<>>))
    /\ wClosed' = TRUE
    /\ wFailed' = (wFailed \/ cpChan # "open")
    /\ cpPc' = "wait"
    /\ UNCHANGED <<cpEntry, cpBody, cpName, cpDest, cpMode, cpSize, cpOff,
                   cpIoErr, cpChan, cpBuffered, cpOut, cpErr, scpPc,
                   scpStatus, waitPc, waitRes, cpRet>>
    /\ CopyFrame

(* The remote scp writes a byte to its stdout or to its stderr. *)
ScpWrite ==
    /\ scpPc = "running"
    /\ \/ \E b \in ScpBytes :
          /\ Len(cpOut) < MaxStdout
          /\ cpOut' = IF cpBuffered THEN Append(cpOut, b) ELSE cpOut
          /\ UNCHANGED cpErr
       \/ \E b \in ScpErrBytes :
          /\ Len(cpErr) < MaxStderr
          /\ cpErr' = IF cpBuffered THEN Append(cpErr, b) ELSE cpErr
          /\ UNCHANGED cpOut
    /\ UNCHANGED <<cpEntry, cpBody, cpName, cpDest, cpMode, cpSize, cpPc,
                   cpWire, wClosed, wFailed, cpOff, cpIoErr, cpChan,
                   cpBuffered, scpPc, scpStatus, waitPc, waitRes, cpRet>>
    /\ CopyFrame

(* The remote scp exits with a status, or the connection is lost. *)
ScpExit ==
    /\ scpPc = "running"
    /\ \/ \E st \in ScpStatuses :
          /\ scpStatus' = st
          /\ scpPc' = "exited"
       \/ /\ scpPc' = "lost"
          /\ UNCHANGED scpStatus
    /\ UNCHANGED <<cpEntry, cpBody, cpName, cpDest, cpMode, cpSize, cpPc,
                   cpWire, wClosed, wFailed, cpOff, cpIoErr, cpChan,
                   cpBuffered, cpOut, cpErr, waitPc, waitRes, cpRet>>
    /\ CopyFrame

(* The client learns of the end: the remote's close of the channel, sent   *)
(* after the exit status, arrives, or the loss of the connection is        *)
(* noticed.  From here on the channel takes no write.                      *)
ChannelEnds ==
    /\ scpPc \in {"exited", "lost"}
    /\ cpChan = "open"
    /\ cpChan' = "closed"
    /\ UNCHANGED <<cpEntry, cpBody, cpName, cpDest, cpMode, cpSize, cpPc,
                   cpWire, wClosed, wFailed, cpOff, cpIoErr, cpBuffered,
                   cpOut, cpErr, scpPc, scpStatus, waitPc, waitRes, cpRet>>
    /\ CopyFrame

(* Line 506: s.ssh.Wait() returns in the goroutine, which it does when the *)
(* channel has ended.                                                      *)
WaitReturns ==
    /\ waitPc = "wait"
    /\ cpChan = "closed"
    /\ waitRes' = IF scpPc = "exited" THEN SshRunErr(scpStatus) ELSE ConnErr
    /\ waitPc' = "send"
    /\ UNCHANGED <<cpEntry, cpBody, cpName, cpDest, cpMode, cpSize, cpPc,
                   cpWire, wClosed, wFailed, cpOff, cpIoErr, cpChan,
                   cpBuffered, cpOut, cpErr, scpPc, scpStatus, cpRet>>
    /\ CopyFrame

(* Lines 519-546: err = <-errors meets errors <- s.ssh.Wait(), and Copy    *)
(* returns what it makes of the error.                                     *)
CopyWait ==
    /\ cpPc = "wait"
    /\ waitPc = "send"
    /\ waitPc' = "done"
    /\ cpRet' = CopyResult(waitRes, cpOut, cpErr)
    /\ cpPc' = "returned"
    /\ UNCHANGED <<cpEntry, cpBody, cpName, cpDest, cpMode, cpSize, cpWire,
                   wClosed, wFailed, cpOff, cpIoErr, cpChan, cpBuffered,
                   cpOut, cpErr, scpPc, scpStatus, waitRes>>
    /\ CopyFrame

NextCopy ==
    \/ CopyBegin
    \/ CopyControl
    \/ CopyBody
    \/ CopyAbort
    \/ CopyMarker
    \/ CopyClose
    \/ ScpWrite
    \/ ScpExit
    \/ ChannelEnds
    \/ WaitReturns
    \/ CopyWait

----------------------------------------------------------------------------
(* The decoder of the remote's stdout in Copy, on its own                  *)
(* (src/client.go:529-543).                                                *)

DecodeFrame == UNCHANGED <<execVars, runVars, ctlVars, copyVars, lifeVars,
    srvVars, sessVars, dispVars>>

(* Every sequence over S of length n at most. *)
SeqsUpTo(S, n) == UNION {[1 .. k -> S] : k \in 0 .. n}

(* A remote stdout made of status frames: a status byte, a message without *)
(* status bytes, a newline, and further frames of a status byte and text.  *)
StatusBytes == {0, 1, 2}
MessageBytes == {10, 65, 66}
DecMessages == SeqsUpTo(MessageBytes, MaxMsg) \ {<<>>}
FrameTexts == {<<>>, <<67, 10>>}
Frames == {<<st>> \o t : st \in StatusBytes, t \in FrameTexts}

RECURSIVE FrameSeqs(_)
FrameSeqs(n) ==
    IF n = 0 THEN {<<>>}
    ELSE FrameSeqs(n - 1) \cup {f \o r : f \in Frames, r \in FrameSeqs(n - 1)}

FramedInputs ==
    {[stdout |-> <<st>> \o m \o <<10>> \o fs, message |-> m] :
        st \in StatusBytes, m \in DecMessages, fs \in FrameSeqs(MaxFrames)}

(* Any remote stdout. *)
RawInputs == SeqsUpTo(ScpBytes, MaxRaw)

InitDecode ==
    /\ \/ \E i \in FramedInputs :
             /\ dStdout = i.stdout
             /\ dMessage = i.message
             /\ dFramed = TRUE
       \/ /\ dStdout \in RawInputs
          /\ dMessage = <<>>
          /\ dFramed = FALSE
    /\ dPc = "start"
    /\ dDecoded = <<>>
    /\ dPanicked = FALSE

IdleDecode ==
    /\ dStdout = <<>>
    /\ dMessage = <<>>
    /\ dFramed = FALSE
    /\ dPc = "idle"
    /\ dDecoded = <<>>
    /\ dPanicked = FALSE

(* Lines 529-543: stdout := s.out.String() and its decoding. *)
Decode ==
    /\ dPc = "start"
    /\ dPc' = "done"
    /\ dPanicked' = DecodePanics(dStdout)
    /\ dDecoded' = IF DecodePanics(dStdout) THEN <<>>
                                            ELSE DecodeStdout(dStdout)
    /\ UNCHANGED <<dStdout, dMessage, dFramed>>
    /\ DecodeFrame

NextDecode == Decode

----------------------------------------------------------------------------
(* The life of a Session: DialSSH / DialConfigSSH with NewSession, then    *)
(* Terminal and Close in any order.                                        *)

LifeFrame == UNCHANGED <<execVars, runVars, ctlVars, copyVars, decodeVars,
    srvVars, sessVars, dispVars>>

PtyErr == [kind |-> "pty", n |-> 0]

LifeVariants == {"pty", "plain"}

InitLife ==
    /\ lVariant \in LifeVariants
    /\ lPc = "start"
    /\ lHasClient = FALSE
    /\ connState = "none"
    /\ connReleased = 0
    /\ chanOpen = FALSE
    /\ lPty = FALSE
    /\ lErr = NoErr
    /\ lLast = "none"
    /\ lCloses = 0
    /\ lCalls = 0

IdleLife ==
    /\ lVariant = "none"
    /\ lPc = "idle"
    /\ lHasClient = FALSE
    /\ connState = "none"
    /\ connReleased = 0
    /\ chanOpen = FALSE
    /\ lPty = FALSE
    /\ lErr = NoErr
    /\ lLast = "none"
    /\ lCloses = 0
    /\ lCalls = 0

(* client.Close(): the transport handle is released if it is open, and the *)
(* channels on it are gone; on a closed handle the call only returns an    *)
(* error.                                                                  *)
ClientCloseKeepsOpen ==
    /\ UNCHANGED <<connState, connReleased>>

ClientClose ==
    /\ connState' = "closed"
    /\ connReleased' = IF connState = "open" THEN connReleased + 1
                                             ELSE connReleased

(* DialSSH / DialConfigSSH: net.DialTimeout, ssh.NewClientConn, then       *)
(* NewSession on the new client.  In the "pty" variant NewSession also     *)
(* requests the pseudo-terminal and closes the client when that fails.     *)
DialSSH ==
    /\ lPc = "start"
    /\ lLast' = "dial"
    /\ \/ /\ lErr' = DialErr
          /\ lPc' = "failed"
          /\ UNCHANGED <<connState, connReleased, chanOpen, lHasClient, lPty>>
       \/ /\ lErr' = AuthErr
          /\ lPc' = "failed"
          /\ connState' = "closed"
          /\ connReleased' = 1
          /\ UNCHANGED <<chanOpen, lHasClient, lPty>>
       \/ /\ lErr' = ChanOpenErr
          /\ lPc' = "failed"
          /\ connState' = "open"
          /\ UNCHANGED <<connReleased, chanOpen, lHasClient, lPty>>
       \/ /\ lVariant = "pty"
          /\ lErr' = PtyErr
          /\ lPc' = "failed"
          /\ connState' = "closed"
          /\ connReleased' = 1
          /\ UNCHANGED <<chanOpen, lHasClient, lPty>>
       \/ /\ lErr' = NoErr
          /\ lPc' = "session"
          /\ connState' = "open"
          /\ chanOpen' = TRUE
          /\ lHasClient' = TRUE
          /\ lPty' = (lVariant = "pty")
          /\ UNCHANGED connReleased
    /\ UNCHANGED <<lVariant, lCloses, lCalls>>
    /\ LifeFrame

(* Session.Terminal: RequestPty; on failure s.client.Close() and the       *)
(* error.  The request cannot succeed on a channel that is gone.           *)
Terminal ==
    /\ lPc = "session"
    /\ lCalls < MaxCalls
    /\ lCalls' = lCalls + 1
    /\ lLast' = "terminal"
    /\ \/ /\ chanOpen
          /\ lErr' = NoErr
          /\ lPty' = TRUE
          /\ UNCHANGED <<connState, connReleased, chanOpen>>
       \/ /\ lErr' = PtyErr
          /\ ClientClose
          /\ chanOpen' = FALSE
          /\ UNCHANGED lPty
    /\ UNCHANGED <<lVariant, lPc, lHasClient, lCloses>>
    /\ LifeFrame

(* Session.Close: s.ssh.Close(), then s.client.Close() if there is a       *)
(* client; the errors of both are dropped.                                 *)
CloseChannelOnly ==
    /\ lPc = "session"
    /\ lCalls < MaxCalls
    /\ lCalls' = lCalls + 1
    /\ lCloses' = lCloses + 1
    /\ lLast' = "close"
    /\ lErr' = NoErr
    /\ chanOpen' = FALSE
    /\ UNCHANGED <<connState, connReleased>>
    /\ UNCHANGED <<lVariant, lPc, lHasClient, lPty>>
    /\ LifeFrame

Close ==
    /\ lPc = "session"
    /\ lCalls < MaxCalls
    /\ lCalls' = lCalls + 1
    /\ lCloses' = lCloses + 1
    /\ lLast' = "close"
    /\ lErr' = NoErr
    /\ chanOpen' = FALSE
    /\ IF lHasClient THEN ClientClose
                     ELSE UNCHANGED <<connState, connReleased>>
    /\ UNCHANGED <<lVariant, lPc, lHasClient, lPty>>
    /\ LifeFrame

NextLife ==
    \/ DialSSH
    \/ Terminal
    \/ Close

----------------------------------------------------------------------------
(* The test server: Server, the accept loop it starts, and the shutdown    *)
(* closure it returns (src/server.go:119-222).                             *)

SrvFrame == UNCHANGED <<execVars, runVars, ctlVars, copyVars, decodeVars,
    lifeVars, sessVars, dispVars>>

NoConn == [user |-> "", pass |-> ""]

(* Inputs: the port option, the configured and the offered credentials,    *)
(* and the ports the system hands out for port 0.                          *)
PortOpts == {0 - 1, 0, 12200}
EphemeralPorts == {32768, 32769}
CfgUsers == {"joebob"}
CfgPasswords == {"", "howdy!"}
Users == {"joebob", "root"}
Passwords == {"", "howdy!"}
Shutdowns == 1 .. MaxShutdowns

(* if options.Password != "" { config.PasswordCallback = ... } *)
CallbackInstalledAlways(password) == TRUE

CallbackInstalled(password) == password # ""

(* c.User() == options.Username && string(pass) == options.Password *)
ServerPasswordCallback(username, password, user, pass) ==
    user = username /\ pass = password

(* The port in the address handed to net.Listen: the local listenPort,     *)
(* which nothing assigns.                                                  *)
ListenPort(portOpt) == 0

(* net.Listen: the port asked for, or one the system picks for port 0. *)
NetListen(port, picked) == IF port = 0 THEN picked ELSE port

InitSrv ==
    /\ sPortOpt \in PortOpts
    /\ sCfgUser \in CfgUsers
    /\ sCfgPass \in CfgPasswords
    /\ sPc = "start"
    /\ sCallback = FALSE
    /\ sBound = 0
    /\ sReported = 0 - 1
    /\ listener = "none"
    /\ listening = FALSE
    /\ loopPc = "idle"
    /\ sBacklog = <<>>
    /\ sConn = NoConn
    /\ sConns = 0
    /\ sAuthLog = <<>>
    /\ sFailLogs = 0
    /\ sCloseLogged = FALSE
    /\ sSpurious = 0
    /\ sAcceptedAfter = FALSE
    /\ shutPc = [i \in Shutdowns |-> "idle"]

IdleSrv ==
    /\ sPortOpt = 0 - 1
    /\ sCfgUser = ""
    /\ sCfgPass = ""
    /\ sPc = "idle"
    /\ sCallback = FALSE
    /\ sBound = 0
    /\ sReported = 0 - 1
    /\ listener = "none"
    /\ listening = FALSE
    /\ loopPc = "idle"
    /\ sBacklog = <<>>
    /\ sConn = NoConn
    /\ sConns = 0
    /\ sAuthLog = <<>>
    /\ sFailLogs = 0
    /\ sCloseLogged = FALSE
    /\ sSpurious = 0
    /\ sAcceptedAfter = FALSE
    /\ shutPc = <<>>

(* Server: the configuration, the host key, the listener, the accept loop  *)
(* goroutine, and the closure.  It fails when the key cannot be loaded or  *)
(* the listener cannot be bound.                                           *)
Server ==
    /\ sPc = "start"
    /\ \/ /\ sPc' = "failed"
          /\ sCallback' = CallbackInstalled(sCfgPass)
          /\ UNCHANGED <<sBound, sReported, listener, listening, loopPc>>
       \/ \E picked \in EphemeralPorts :
          /\ sPc' = "serving"
          /\ sCallback' = CallbackInstalled(sCfgPass)
          /\ sBound' = NetListen(ListenPort(sPortOpt), picked)
          /\ sReported' = sBound'
          /\ listener' = "open"
          /\ listening' = TRUE
          /\ loopPc' = "accept"
    /\ UNCHANGED <<sPortOpt, sCfgUser, sCfgPass, sBacklog, sConn, sConns,
                   sAuthLog, sFailLogs, sCloseLogged, sSpurious,
                   sAcceptedAfter, shutPc>>
    /\ SrvFrame

(* A client connects to the listener and will offer a user and password. *)
ClientConnect ==
    /\ listener = "open"
    /\ sConns < MaxConns
    /\ \E u \in Users, p \in Passwords :
          sBacklog' = Append(sBacklog, [user |-> u, pass |-> p])
    /\ sConns' = sConns + 1
    /\ UNCHANGED <<sPortOpt, sCfgUser, sCfgPass, sPc, sCallback, sBound,
                   sReported, listener, listening, loopPc, sConn, sAuthLog,
                   sFailLogs, sCloseLogged, sSpurious, sAcceptedAfter, shutPc>>
    /\ SrvFrame

(* Accept returned an error: leave the loop when listening is false, log   *)
(* the failure and go on otherwise.                                        *)
OnAcceptError(cause) ==
    IF ~listening
    THEN /\ loopPc' = "exited"
         /\ UNCHANGED <<sFailLogs, sCloseLogged>>
    ELSE /\ loopPc' = "accept"
         /\ sFailLogs' = sFailLogs + 1
         /\ sCloseLogged' = (sCloseLogged \/ cause = "closed")

(* listener.Accept() in the loop: a connection, the error of a closed      *)
(* listener, or an error with another cause.                               *)
LoopAccept ==
    /\ loopPc = "accept"
    /\ \/ /\ listener = "open"
          /\ sBacklog # <<>>
          /\ sConn' = Head(sBacklog)
          /\ sBacklog' = Tail(sBacklog)
          /\ loopPc' = "handshake"
          /\ sAcceptedAfter' =
                (sAcceptedAfter \/ \E i \in Shutdowns : shutPc[i] = "done")
          /\ UNCHANGED <<sFailLogs, sCloseLogged, sSpurious>>
       \/ /\ listener = "closed"
          /\ sFailLogs < MaxFailLogs
          /\ OnAcceptError("closed")
          /\ UNCHANGED <<sConn, sBacklog, sSpurious, sAcceptedAfter>>
       \/ /\ listener = "open"
          /\ sSpurious < MaxSpurious
          /\ sSpurious' = sSpurious + 1
          /\ OnAcceptError("other")
          /\ UNCHANGED <<sConn, sBacklog, sAcceptedAfter>>
    /\ UNCHANGED <<sPortOpt, sCfgUser, sCfgPass, sPc, sCallback, sBound,
                   sReported, listener, listening, sConns, sAuthLog, shutPc>>
    /\ SrvFrame

(* ssh.NewServerConn on the accepted connection: the password login is     *)
(* accepted when a callback is installed and lets it pass.                 *)
LoopHandshake ==
    /\ loopPc = "handshake"
    /\ sAuthLog' = Append(sAuthLog,
          [user |-> sConn.user, pass |-> sConn.pass,
           ok |-> sCallback /\ ServerPasswordCallback(sCfgUser, sCfgPass,
                                                      sConn.user, sConn.pass)])
    /\ sConn' = NoConn
    /\ loopPc' = "accept"
    /\ UNCHANGED <<sPortOpt, sCfgUser, sCfgPass, sPc, sCallback, sBound,
                   sReported, listener, listening, sBacklog, sConns,
                   sFailLogs, sCloseLogged, sSpurious, sAcceptedAfter, shutPc>>
    /\ SrvFrame

(* The closure, first half: the log line and listening = false. *)
ShutdownCalled ==
    /\ sPc = "serving"
    /\ \E i \in Shutdowns :
          /\ shutPc[i] = "idle"
          /\ shutPc' = [shutPc EXCEPT ![i] = "called"]
    /\ listening' = FALSE
    /\ UNCHANGED <<sPortOpt, sCfgUser, sCfgPass, sPc, sCallback, sBound,
                   sReported, listener, loopPc, sBacklog, sConn, sConns,
                   sAuthLog, sFailLogs, sCloseLogged, sSpurious,
                   sAcceptedAfter>>
    /\ SrvFrame

(* The closure, second half: listener.Close(); the connections that were   *)
(* waiting are dropped.                                                    *)
ShutdownClose ==
    /\ \E i \in Shutdowns :
          /\ shutPc[i] = "called"
          /\ shutPc' = [shutPc EXCEPT ![i] = "done"]
    /\ listener' = "closed"
    /\ sBacklog' = <<>>
    /\ UNCHANGED <<sPortOpt, sCfgUser, sCfgPass, sPc, sCallback, sBound,
                   sReported, listening, loopPc, sConn, sConns, sAuthLog,
                   sFailLogs, sCloseLogged, sSpurious, sAcceptedAfter>>
    /\ SrvFrame

NextSrv ==
    \/ Server
    \/ ClientConnect
    \/ LoopAccept
    \/ LoopHandshake
    \/ ShutdownCalled
    \/ ShutdownClose

----------------------------------------------------------------------------
(* A Session that its caller keeps and calls several times: Buffered, Run, *)
(* Shell, Clear, Close and the Connection's NewSession in any order.  The  *)
(* ssh.Session under it is started once, by Run or by Shell; a later Run   *)
(* fails before anything is sent.                                          *)

SessFrame == UNCHANGED <<execVars, runVars, ctlVars, copyVars, decodeVars,
    lifeVars, srvVars, dispVars>>

StartedErr == [kind |-> "started", n |-> 0]

SessOuts == {<<>>, <<97>>, <<97, 98>>}
SessErrs == {<<>>, <<101>>}
SessCodes == {0, 1}

NoOutput == [out |-> <<>>, err |-> <<>>]

(* No copier of a shell is inside a Write to a buffer. *)
NoWrite == [stream |-> "none", b |-> 0, seen |-> <<>>]

(* No shell was started: neither stream has a copier. *)
NoShell == [out |-> "none", err |-> "none"]

(* A copier of a shell appends to a buffer of the Session. *)
ShellCaptures == "captured" \in {ssShell.out, ssShell.err}

(* Nothing written since the last Clear, by a command or by a shell. *)
NothingSince == [out |-> <<>>, err |-> <<>>, shell |-> 0]

InitSess ==
    /\ ssOut = <<>>
    /\ ssErr = <<>>
    /\ ssRedir = FALSE
    /\ ssStarted = FALSE
    /\ ssChan = "open"
    /\ ssConn = "open"
    /\ ssRes = ZeroResults
    /\ ssRerr = NoErr
    /\ ssWrote = <<>>
    /\ ssLog = <<>>
    /\ ssShell = NoShell
    /\ ssSince = NothingSince
    /\ ssWriting = NoWrite

(* No Session in use: its variables at rest. *)
IdleSess ==
    /\ ssOut = <<>>
    /\ ssErr = <<>>
    /\ ssRedir = FALSE
    /\ ssStarted = FALSE
    /\ ssChan = "none"
    /\ ssConn = "none"
    /\ ssRes = ZeroResults
    /\ ssRerr = NoErr
    /\ ssWrote = <<>>
    /\ ssLog = <<>>
    /\ ssShell = NoShell
    /\ ssSince = NothingSince
    /\ ssWriting = NoWrite

(* The Session can be called: it exists, is not closed, and the caller has *)
(* calls left.                                                             *)
SessCallable ==
    /\ ssConn = "open"
    /\ Len(ssLog) < MaxSessCalls

(* The Session has an ssh.Session: after a NewSession of the Connection    *)
(* that failed it has none, and its caller, who got the error, makes no    *)
(* call that needs one.                                                    *)
HasSSH == ssChan # "nil"

(* Session.Buffered: both streams of the ssh.Session go to the buffers. *)
SessionBuffered ==
    /\ SessCallable
    /\ HasSSH
    /\ ssRedir' = TRUE
    /\ ssLog' = Append(ssLog, "Buffered")
    /\ UNCHANGED <<ssOut, ssErr, ssStarted, ssChan, ssConn, ssRes, ssRerr,
                   ssWrote, ssShell, ssSince>>
    /\ UNCHANGED ssWriting
    /\ SessFrame

(* Run on the Session.  The first Run starts the command: what the remote  *)
(* writes is appended to the buffers when they are the streams' targets    *)
(* and discarded otherwise, and the remote may close the channel when the  *)
(* command has ended.  A request the remote refuses starts nothing.  A Run *)
(* on an ssh.Session that was started, by Run or by Shell, fails with      *)
(* "session already started".  Either way the Results carry the whole      *)
(* content of both buffers.                                                *)
SessionRun ==
    /\ SessCallable
    /\ HasSSH
    /\ ssLog' = Append(ssLog, "Run")
    /\ IF ssStarted
       THEN /\ ssRerr' = StartedErr
            /\ ssRes' = Run(StartedErr, ssOut, ssErr)
            /\ ssWrote' = Append(ssWrote, NoOutput)
            /\ UNCHANGED <<ssOut, ssErr, ssStarted, ssChan, ssSince>>
       ELSE \/ \E o \in SessOuts, e \in SessErrs, st \in SessCodes :
               /\ ssStarted' = TRUE
               /\ ssOut' = IF ssRedir THEN ssOut \o o ELSE ssOut
               /\ ssErr' = IF ssRedir THEN ssErr \o e ELSE ssErr
               /\ ssSince' = IF ssRedir
                             THEN [ssSince EXCEPT !.out = @ \o o,
                                                  !.err = @ \o e]
                             ELSE ssSince
               /\ ssRerr' = SshRunErr(st)
               /\ ssRes' = Run(SshRunErr(st), ssOut', ssErr')
               /\ ssWrote' = Append(ssWrote, [out |-> o, err |-> e])
               /\ ssChan' \in {"open", "closed"}
            \/ /\ ssRerr' = CmdFailedErr
               /\ ssRes' = Run(CmdFailedErr, ssOut, ssErr)
               /\ ssWrote' = Append(ssWrote, NoOutput)
               /\ UNCHANGED <<ssOut, ssErr, ssStarted, ssChan, ssSince>>
    /\ UNCHANGED <<ssRedir, ssConn, ssShell>>
    /\ UNCHANGED ssWriting
    /\ SessFrame

(* Session.Shell: s.ssh.Shell().  On an ssh.Session that was started it    *)
(* fails; the remote may refuse the request; otherwise the ssh.Session is  *)
(* started: one goroutine per stream is launched that will copy the        *)
(* remote's output to the stream's target.  Shell returns without waiting  *)
(* for them, and each reads its target only when it runs (CopierStarts).   *)
(* A copier of an earlier ssh.Session that appends to a buffer goes on     *)
(* doing so.                                                               *)
StartCopier(c) == IF c = "captured" THEN "captured" ELSE "pending"

SessionShell ==
    /\ SessCallable
    /\ HasSSH
    /\ ssLog' = Append(ssLog, "Shell")
    /\ \/ /\ ~ssStarted
          /\ ssChan = "open"
          /\ ssStarted' = TRUE
          /\ ssShell' = [out |-> StartCopier(ssShell.out),
                          err |-> StartCopier(ssShell.err)]
       \/ UNCHANGED <<ssStarted, ssShell>>
    /\ UNCHANGED <<ssOut, ssErr, ssRedir, ssChan, ssConn, ssRes, ssRerr,
                   ssWrote, ssSince>>
    /\ UNCHANGED ssWriting
    /\ SessFrame

(* Where a copier that starts now sends its stream: it reads Stdout or     *)
(* Stderr of its ssh.Session, which is a buffer after Buffered and the     *)
(* discarding writer otherwise.                                            *)
CopierTarget(redir) == IF redir THEN "captured" ELSE "discarded"

Resolve(c, redir) == IF c = "pending" THEN CopierTarget(redir) ELSE c

(* The goroutine of one stream of the shell runs: io.Copy(s.Stdout, s.ch)  *)
(* or io.Copy(s.Stderr, s.ch.Stderr()) reads the target and copies to it   *)
(* from then on.  Nothing orders this read and a Buffered the caller makes *)
(* after Shell: whichever comes first decides whether the stream is        *)
(* captured or discarded.                                                  *)
CopierStarts ==
    /\ \E x \in {"out", "err"} :
          /\ ssShell[x] = "pending"
          /\ ssShell' = [ssShell EXCEPT ![x] = CopierTarget(ssRedir)]
    /\ UNCHANGED <<ssOut, ssErr, ssRedir, ssStarted, ssChan, ssConn, ssRes,
                   ssRerr, ssWrote, ssLog, ssSince, ssWriting>>
    /\ SessFrame

(* A copier whose target is a buffer copies the remote's output to it      *)
(* (io.Copy, which is the buffer's ReadFrom): it takes the buffer's length *)
(* and waits for the shell's next byte.  The output of a stream that       *)
(* points nowhere is discarded and changes nothing.                        *)
ShellWriteBegin ==
    /\ ssConn = "open"
    /\ ssWriting = NoWrite
    /\ ssSince.shell < MaxShellOut
    /\ \E b \in OutBytes :
          \/ /\ ssShell.out = "captured"
             /\ ssWriting' = [stream |-> "out", b |-> b, seen |-> ssOut]
          \/ /\ ssShell.err = "captured"
             /\ ssWriting' = [stream |-> "err", b |-> b, seen |-> ssErr]
    /\ ssSince' = [ssSince EXCEPT !.shell = @ + 1]
    /\ UNCHANGED <<ssOut, ssErr, ssRedir, ssStarted, ssChan, ssConn, ssRes,
                   ssRerr, ssWrote, ssLog, ssShell>>
    /\ SessFrame

(* What the buffer holds after the copier, which saw it as seen, has put   *)
(* the byte in.  Nothing orders the copier and the caller's Reset: when    *)
(* the buffer was reset in between, the copier extends the emptied slice   *)
(* to the length it took plus one, which brings back the bytes from before *)
(* the Reset, or it appends to the empty buffer.                           *)
AfterWrite(buf, w) ==
    IF buf = w.seen THEN {Append(buf, w.b)}
    ELSE {Append(buf, w.b), Append(w.seen, w.b)}

ShellWriteEnd ==
    /\ ssWriting # NoWrite
    /\ ssWriting' = NoWrite
    /\ \/ /\ ssWriting.stream = "out"
          /\ ssOut' \in AfterWrite(ssOut, ssWriting)
          /\ ssSince' = [ssSince EXCEPT !.out = Append(@, ssWriting.b)]
          /\ UNCHANGED ssErr
       \/ /\ ssWriting.stream = "err"
          /\ ssErr' \in AfterWrite(ssErr, ssWriting)
          /\ ssSince' = [ssSince EXCEPT !.err = Append(@, ssWriting.b)]
          /\ UNCHANGED ssOut
    /\ UNCHANGED <<ssRedir, ssStarted, ssChan, ssConn, ssRes, ssRerr, ssWrote,
                   ssLog, ssShell>>
    /\ SessFrame

(* Connection.NewSession: s.ssh, err = s.client.NewSession().  The new     *)
(* ssh.Session is not started and its streams point nowhere; the buffers   *)
(* keep their content.  On failure s.ssh is nil.  A copier of the replaced *)
(* ssh.Session that has not run yet will find the targets that Session has *)
(* now, which no later Buffered can change.                                *)
ConnectionNewSession ==
    /\ SessCallable
    /\ ssLog' = Append(ssLog, "NewSession")
    /\ ssStarted' = FALSE
    /\ ssRedir' = FALSE
    /\ ssChan' \in {"open", "nil"}
    /\ ssShell' = [out |-> Resolve(ssShell.out, ssRedir),
                   err |-> Resolve(ssShell.err, ssRedir)]
    /\ UNCHANGED <<ssOut, ssErr, ssConn, ssRes, ssRerr, ssWrote, ssSince>>
    /\ UNCHANGED ssWriting
    /\ SessFrame

(* Session.Clear: s.out.Reset(); s.err.Reset(). *)
Clear ==
    /\ ssOut' = <<>>
    /\ ssErr' = <<>>

SessionClear ==
    /\ SessCallable
    /\ Clear
    /\ ssLog' = Append(ssLog, "Clear")
    /\ ssSince' = NothingSince
    /\ UNCHANGED <<ssRedir, ssStarted, ssChan, ssConn, ssRes, ssRerr, ssWrote,
                   ssShell>>
    /\ UNCHANGED ssWriting
    /\ SessFrame

(* Session.Close: the channel, then the client's connection. *)
SessionClose ==
    /\ SessCallable
    /\ HasSSH
    /\ ssChan' = "closed"
    /\ ssConn' = "closed"
    /\ ssLog' = Append(ssLog, "Close")
    /\ UNCHANGED <<ssOut, ssErr, ssRedir, ssStarted, ssRes, ssRerr, ssWrote,
                   ssShell, ssSince>>
    /\ UNCHANGED ssWriting
    /\ SessFrame

NextSess ==
    \/ SessionBuffered
    \/ SessionRun
    \/ SessionShell
    \/ CopierStarts
    \/ ShellWriteBegin
    \/ ShellWriteEnd
    \/ ConnectionNewSession
    \/ SessionClear
    \/ SessionClose

----------------------------------------------------------------------------
(* The test server behind its listener: the accept loop takes connections  *)
(* and runs the handshake, handleChannels starts handleChannel for every   *)
(* new channel of a connection, and the request loop of an accepted        *)
(* channel handles its requests one after the other.  All channels share   *)
(* the one handler of the ServerOptions.  A client opens one channel on    *)
(* its connection, so a channel is numbered as its connection.             *)

DispFrame == UNCHANGED <<execVars, runVars, ctlVars, copyVars, decodeVars,
    lifeVars, srvVars, sessVars>>

DConns == 1 .. MaxDConns

ChanTypes == {"session", "direct-tcpip"}

(* A request as the ssh library hands it to the loop. *)
Req(type, payload, want) == [type |-> type, payload |-> payload, want |-> want]
NoReq == Req("none", <<>>, FALSE)

(* The requests a client sends: shell without and with a command, exec     *)
(* with a length-prefixed command and with a payload of three bytes, and   *)
(* the terminal requests; with and without the demand of a reply.          *)
DispReqs ==
    {Req("shell", <<>>, TRUE), Req("shell", <<>>, FALSE),
     Req("shell", <<120>>, TRUE),
     Req("exec", BE32(1) \o <<102>>, TRUE),
     Req("exec", BE32(1) \o <<102>>, FALSE),
     Req("exec", <<0, 0, 0>>, TRUE),
     Req("pty-req", <<1>>, TRUE), Req("pty-req", <<1>>, FALSE),
     Req("window-change", <<1>>, FALSE)}

(* What hndlr.Exec returns: a code, and an error or none. *)
DispCodes == {0, 263}

(* A call the dispatcher makes: the handler's Exec with the command and    *)
(* the channel the handler writes to, or Reject, SendRequest, Reply and    *)
(* Close on channel to.  sent tells whether the library put it on the      *)
(* wire: it sends nothing on a channel that was closed from this side.     *)
Ev(ev, data, to, sent) == [ev |-> ev, data |-> data, to |-> to, sent |-> sent]

NoChan == [type |-> "", st |-> "none"]
(* What the server did last: for channel chan, on request req (none for   *)
(* handleChannel itself), with the code and error the handler returned     *)
(* when it was called, and the calls made in their order.                  *)
Last(chan, req, rc, herr, events) ==
    [chan |-> chan, req |-> req, rc |-> rc, herr |-> herr, events |-> events]
NoLast == Last(0, NoReq, 0, FALSE, <<>>)

(* ssh.UnknownChannelType, the reason given to newChannel.Reject. *)
UnknownChannelType == 3

InitDisp ==
    /\ dConn = [k \in DConns |-> "none"]
    /\ dValid = [k \in DConns |-> FALSE]
    /\ dChan = [c \in DConns |-> NoChan]
    /\ dBound = 0
    /\ dLast = NoLast
    /\ dReqs = 0
    /\ srvPanicked = FALSE
    /\ dTurn = [c \in DConns |-> NoLast]

(* No server running: its variables at rest. *)
IdleDisp ==
    /\ dConn = <<>>
    /\ dValid = <<>>
    /\ dChan = <<>>
    /\ dBound = 0
    /\ dLast = NoLast
    /\ dReqs = 0
    /\ srvPanicked = FALSE
    /\ dTurn = <<>>

(* A client connects. *)
DispConnect ==
    /\ ~srvPanicked
    /\ \E k \in DConns :
          /\ dConn[k] = "none"
          /\ \A j \in 1 .. (k - 1) : dConn[j] # "none"
          /\ dConn' = [dConn EXCEPT ![k] = "queued"]
    /\ UNCHANGED <<dValid, dChan, dBound, dLast, dReqs, srvPanicked>>
    /\ UNCHANGED dTurn
    /\ DispFrame

(* listener.Accept() in the loop: the connection that waited longest. *)
DispAccept ==
    /\ ~srvPanicked
    /\ \A j \in DConns : dConn[j] # "handshake"
    /\ \E k \in DConns :
          /\ dConn[k] = "queued"
          /\ \A j \in 1 .. (k - 1) : dConn[j] # "queued"
          /\ dConn' = [dConn EXCEPT ![k] = "handshake"]
    /\ UNCHANGED <<dValid, dChan, dBound, dLast, dReqs, srvPanicked>>
    /\ UNCHANGED dTurn
    /\ DispFrame

(* ssh.NewServerConn in the loop: the client offers its credentials.  A    *)
(* failure is logged and the loop continues; after a success               *)
(* DiscardRequests and handleChannels are started and the loop continues.  *)
AfterHandshake(ok) == IF ok THEN "up" ELSE "failed"

DispHandshake ==
    /\ ~srvPanicked
    /\ \E k \in DConns :
          /\ dConn[k] = "handshake"
          /\ \E v \in BOOLEAN :
                /\ dValid' = [dValid EXCEPT ![k] = v]
                /\ dConn' = [dConn EXCEPT ![k] = AfterHandshake(v)]
    /\ UNCHANGED <<dChan, dBound, dLast, dReqs, srvPanicked>>
    /\ UNCHANGED dTurn
    /\ DispFrame

(* The client opens a channel of some type on its connection. *)
ChannelOpen ==
    /\ ~srvPanicked
    /\ \E c \in DConns, t \in ChanTypes :
          /\ dConn[c] = "up"
          /\ dChan[c].st = "none"
          /\ dChan' = [dChan EXCEPT ![c] = [type |-> t, st |-> "offered"]]
    /\ UNCHANGED <<dConn, dValid, dBound, dLast, dReqs, srvPanicked>>
    /\ UNCHANGED dTurn
    /\ DispFrame

(* handleChannel up to the start of the request loop: a channel that is    *)
(* no "session" is rejected; newChannel.Accept() may fail, which is logged;*)
(* otherwise the handler is bound to the channel and the loop started.     *)
AcceptsEveryType(t) == TRUE

AcceptsType(t) == t = "session"

HandleChannel ==
    /\ ~srvPanicked
    /\ \E c \in DConns :
          /\ dChan[c].st = "offered"
          /\ IF ~AcceptsType(dChan[c].type)
             THEN /\ dChan' = [dChan EXCEPT ![c].st = "rejected"]
                  /\ dLast' = Last(c, NoReq, 0, FALSE,
                         <<Ev("Reject", <<UnknownChannelType>>, c, TRUE)>>)
                  /\ UNCHANGED dBound
             ELSE \/ /\ dChan' = [dChan EXCEPT ![c].st = "acceptFailed"]
                     /\ UNCHANGED <<dBound, dLast>>
                  \/ /\ dChan' = [dChan EXCEPT ![c].st = "open"]
                     /\ dBound' = c
                     /\ dLast' = Last(c, NoReq, 0, FALSE,
                            <<Ev("SetChannel", <<>>, c, TRUE)>>)
    /\ UNCHANGED <<dConn, dValid, dReqs, srvPanicked>>
    /\ UNCHANGED dTurn
    /\ DispFrame

(* The reply bit of req.Reply(ok, nil). *)
Bit(ok) == IF ok THEN <<1>> ELSE <<0>>

(* case "shell": actionOk = len(req.Payload) == 0 *)
ShellOk(payload) == Len(payload) = 0

(* req.Reply(ok, nil): nothing for a request that wants no reply. *)
Reply(c, req, ok, open) ==
    IF req.want THEN <<Ev("Reply", Bit(ok), c, open)>> ELSE <<>>

(* case "exec": hndlr.Exec is called with the payload after its first     *)
(* four bytes and writes its output to the channel the shared handler is   *)
(* bound to at that moment.                                                *)
ExecCall(req) ==
    Ev("Exec", SubSeq(req.payload, 5, Len(req.payload)), dBound, TRUE)

(* The rest of case "exec": the handler reads its channel again for        *)
(* Stderr() and returns; then the exit-status request, the reply, the      *)
(* Close, and the reply after the switch, on the channel just closed.      *)
ExecEvents(c, req, rc, herr, open) ==
    <<Ev("Stderr", <<>>, dBound, TRUE),
      Ev("exit-status", ExitStatusPayload(rc), c, open)>>
    \o Reply(c, req, ~herr, open)
    \o <<Ev("Close", <<>>, c, open)>>
    \o Reply(c, req, ~herr, FALSE)

(* case "shell", followed by the reply after the switch. *)
ShellEventsAlwaysOk(c, req, open) == Reply(c, req, TRUE, open)

ShellEvents(c, req, open) == Reply(c, req, ShellOk(req.payload), open)

(* default: the type is logged; then the reply after the switch. *)
OtherEventsNoReply(c, req, open) == <<>>

OtherEvents(c, req, open) == Reply(c, req, TRUE, open)

(* One turn of the request loop of channel c: a request of the client     *)
(* arrives and is handled.  The channel may already be closed from the     *)
(* server's side; the request was on its way then.  For an "exec" request  *)
(* the turn goes as far as the handler's first write: the other channels'  *)
(* goroutines run while hndlr.Exec does.                                   *)
RequestLoop ==
    /\ ~srvPanicked
    /\ dReqs < MaxReqs
    /\ dReqs' = dReqs + 1
    /\ \E c \in DConns, req \in DispReqs :
       LET open == dChan[c].st = "open"
       IN /\ dChan[c].st \in {"open", "closed"}
          /\ dTurn[c] = NoLast
          /\ \/ /\ req.type = "shell"
                /\ dLast' = Last(c, req, 0, FALSE, ShellEvents(c, req, open))
                /\ UNCHANGED <<dChan, srvPanicked, dTurn>>
             \/ /\ req.type = "exec"
                /\ Len(req.payload) < 4
                /\ srvPanicked' = TRUE
                /\ dLast' = Last(c, req, 0, FALSE, <<>>)
                /\ UNCHANGED <<dChan, dTurn>>
             \/ /\ req.type = "exec"
                /\ Len(req.payload) >= 4
                /\ dTurn' = [dTurn EXCEPT
                                ![c] = Last(c, req, 0, FALSE, <<ExecCall(req)>>)]
                /\ UNCHANGED <<dChan, dLast, srvPanicked>>
             \/ /\ req.type \notin {"shell", "exec"}
                /\ dLast' = Last(c, req, 0, FALSE, OtherEvents(c, req, open))
                /\ UNCHANGED <<dChan, srvPanicked, dTurn>>
    /\ UNCHANGED <<dConn, dValid, dBound>>
    /\ DispFrame

(* hndlr.Exec of channel c writes to Stderr() of the channel the handler   *)
(* is bound to now and returns a code and an error or none; the turn of    *)
(* the request loop goes on to its end.                                    *)
ExecReturns ==
    /\ ~srvPanicked
    /\ \E c \in DConns :
          /\ dTurn[c] # NoLast
          /\ \E rc \in DispCodes, herr \in BOOLEAN :
                dLast' = Last(c, dTurn[c].req, rc, herr,
                              dTurn[c].events
                                \o ExecEvents(c, dTurn[c].req, rc, herr,
                                              dChan[c].st = "open"))
          /\ dChan' = [dChan EXCEPT ![c].st = "closed"]
          /\ dTurn' = [dTurn EXCEPT ![c] = NoLast]
    /\ UNCHANGED <<dConn, dValid, dBound, dReqs, srvPanicked>>
    /\ DispFrame

NextDisp ==
    \/ DispConnect
    \/ DispAccept
    \/ DispHandshake
    \/ ChannelOpen
    \/ HandleChannel
    \/ RequestLoop
    \/ ExecReturns

----------------------------------------------------------------------------
(* One call of one part of the program, with the other parts at rest. *)
InitExecOnly ==
    /\ InitExec
    /\ IdleRun
    /\ IdleCtl
    /\ IdleCopy
    /\ IdleDecode
    /\ IdleLife
    /\ IdleSrv
    /\ IdleSess
    /\ IdleDisp

InitRunOnly ==
    /\ InitRun
    /\ IdleExec
    /\ IdleCtl
    /\ IdleCopy
    /\ IdleDecode
    /\ IdleLife
    /\ IdleSrv
    /\ IdleSess
    /\ IdleDisp

InitCtlOnly ==
    /\ InitCtl
    /\ IdleExec
    /\ IdleRun
    /\ IdleCopy
    /\ IdleDecode
    /\ IdleLife
    /\ IdleSrv
    /\ IdleSess
    /\ IdleDisp

InitCopyOnly ==
    /\ InitCopy
    /\ IdleExec
    /\ IdleRun
    /\ IdleCtl
    /\ IdleDecode
    /\ IdleLife
    /\ IdleSrv
    /\ IdleSess
    /\ IdleDisp

InitDecodeOnly ==
    /\ InitDecode
    /\ IdleExec
    /\ IdleRun
    /\ IdleCtl
    /\ IdleCopy
    /\ IdleLife
    /\ IdleSrv
    /\ IdleSess
    /\ IdleDisp

InitLifeOnly ==
    /\ InitLife
    /\ IdleExec
    /\ IdleRun
    /\ IdleCtl
    /\ IdleCopy
    /\ IdleDecode
    /\ IdleSrv
    /\ IdleSess
    /\ IdleDisp

InitSrvOnly ==
    /\ InitSrv
    /\ IdleExec
    /\ IdleRun
    /\ IdleCtl
    /\ IdleCopy
    /\ IdleDecode
    /\ IdleLife
    /\ IdleSess
    /\ IdleDisp

InitSessOnly ==
    /\ InitSess
    /\ IdleExec
    /\ IdleRun
    /\ IdleCtl
    /\ IdleCopy
    /\ IdleDecode
    /\ IdleLife
    /\ IdleSrv
    /\ IdleDisp

InitDispOnly ==
    /\ InitDisp
    /\ IdleExec
    /\ IdleRun
    /\ IdleCtl
    /\ IdleCopy
    /\ IdleDecode
    /\ IdleLife
    /\ IdleSrv
    /\ IdleSess

SpecExec == InitExecOnly /\ [][NextExec]_vars
SpecRun == InitRunOnly /\ [][NextRun]_vars
SpecCtl == InitCtlOnly /\ [][NextCtl]_vars
SpecCopy == InitCopyOnly /\ [][NextCopy]_vars
SpecDecode == InitDecodeOnly /\ [][NextDecode]_vars
SpecLife == InitLifeOnly /\ [][NextLife]_vars
SpecSrv == InitSrvOnly /\ [][NextSrv]_vars
SpecSess == InitSessOnly /\ [][NextSess]_vars
SpecDisp == InitDispOnly /\ [][NextDisp]_vars

(* The accept loop and every handleChannel are goroutines: they go on      *)
(* whenever they can.  ssh.NewServerConn is called with no deadline and    *)
(* returns when the client has done its part: nothing makes a handshake    *)
(* that was begun come to an end.                                          *)
SpecDispFair ==
    /\ InitDispOnly
    /\ [][NextDisp]_vars
    /\ WF_vars(DispAccept)
    /\ WF_vars(HandleChannel)

(* The accept loop is a goroutine of its own: it goes on whenever it can.  *)
(* ssh.NewServerConn is called in the loop with no deadline and returns    *)
(* when the client has done its part: nothing makes a handshake the loop   *)
(* has begun come to an end.                                               *)
SpecSrvFair ==
    /\ InitSrvOnly
    /\ [][NextSrv]_vars
    /\ WF_vars(LoopAccept)

----------------------------------------------------------------------------
Init ==
    \/ InitExecOnly
    \/ InitRunOnly
    \/ InitCtlOnly
    \/ InitCopyOnly
    \/ InitDecodeOnly
    \/ InitLifeOnly
    \/ InitSrvOnly
    \/ InitSessOnly
    \/ InitDispOnly
Next ==
    \/ NextExec
    \/ NextRun
    \/ NextCtl
    \/ NextCopy
    \/ NextDecode
    \/ NextLife
    \/ NextSrv
    \/ NextSess
    \/ NextDisp
Spec == Init /\ [][Next]_vars

----------------------------------------------------------------------------
(* C1: every invocation of exec ends with exactly one outcome.  Before the *)
(* return no select branch has been taken; at the return exactly one has:  *)
(* either the receive of the worker's Results, whose fields are then the   *)
(* return values, or the deadline, whose error is then the returned error. *)
C1_ExactlyOneOutcome ==
    /\ callerPc # "returned" => outcomes = <<>>
    /\ callerPc = "returned" =>
          /\ Len(outcomes) = 1
          /\ \/ /\ outcomes = <<"results">>
                /\ workerPc = "done"
                /\ ret = [rc |-> workerRes.rc, stdout |-> workerRes.stdout,
                          stderr |-> workerRes.stderr, err |-> workerRes.err]
                /\ ret.err.kind # "timeout"
             \/ /\ outcomes = <<"timeout">>
                /\ workerPc # "done"
                /\ ret.err = TimeoutErr(timeout)

(* C1 witness: the race itself: the Results were received although the     *)
(* timer had already expired.                                              *)
C1_Witness ==
    /\ callerPc = "returned"
    /\ outcomes = <<"results">>
    /\ timer = "fired"

(* C2: a caller that waits in the select does not outlive the deadline,    *)
(* and once the deadline case is taken the call has returned the timeout   *)
(* error with rc = 0 and empty stdout and stderr, whatever the worker has  *)
(* captured or goes on to produce.                                         *)
C2_TimeoutCarriesNoResults ==
    /\ callerPc = "parked" => timer = "armed"
    /\ outcomes = <<"timeout">> =>
          /\ callerPc = "returned"
          /\ ret = [rc |-> 0, stdout |-> <<>>, stderr |-> <<>>,
                    err |-> TimeoutErr(timeout)]

(* C2 witness: the call timed out and the worker finished afterwards,      *)
(* holding Results with captured output.                                   *)
C2_Witness ==
    /\ outcomes = <<"timeout">>
    /\ workerPc = "send"
    /\ workerRes.stdout # <<>>
    /\ sessOpen = FALSE

(* C4: an abandoned worker can always go on: after the timeout outcome the *)
(* worker has finished or has a step it can take.                          *)
C4_AbandonedWorkerTerminates ==
    (outcomes = <<"timeout">> /\ workerPc # "done")
        => ENABLED (WorkerRun \/ WorkerSend)

(* C4 witness: the timeout outcome with the worker holding its Results.    *)
C4_Witness ==
    /\ outcomes = <<"timeout">>
    /\ callerPc = "returned"
    /\ workerPc = "send"

(* C3: ExecPassword of the (Results, error) API, called with a command     *)
(* that runs longer than the timeout, returns a non-nil error and Results  *)
(* with RC = 0 and empty Stderr.                                           *)
C3_ExecPasswordTimesOut ==
    (rEntry = "ExecPassword" /\ cliPc = "returned" /\ elapsed > rTimeout)
        => (rerr # NoErr /\ res.RC = 0 /\ res.Stderr = <<>>)

(* C3 witness: ExecPassword has returned after a command that ran longer   *)
(* than the timeout.                                                       *)
C3_Witness ==
    /\ rEntry = "ExecPassword"
    /\ cliPc = "returned"
    /\ elapsed = rDuration
    /\ elapsed > rTimeout

(* C5: every exit-status request the dispatcher sends has want-reply false *)
(* and the 4-byte big-endian encoding of the handler's exit code as its    *)
(* payload, and the exit code Run reports for a served exec request is the *)
(* handler's exit code.                                                    *)
C5_ExitStatusCarriesHandlerCode ==
    /\ \A i \in DOMAIN sentReqs :
          sentReqs[i] = Msg("req", "exit-status", BE32(hRc), FALSE)
    /\ (cliPc = "returned" /\ execReply = "ok") => res.RC = hRc

(* C5 witness: an exec request served by a handler that returned a code    *)
(* above 255, and the client's Run returned.                               *)
C5_Witness ==
    /\ cliPc = "returned"
    /\ execReply = "ok"
    /\ hRc > 255
    /\ Len(sentReqs) = 1

(* C6: against a server with a MockHandler, ExecPassword with valid        *)
(* credentials returns the handler's RC, Stdout and Stderr whatever the    *)
(* command, and an error, if any, that is an exit-status error.            *)
C6_MockHandlerResults ==
    (/\ rEntry = "ExecPassword"
     /\ rHandler.kind = "mock"
     /\ PasswordCallback(rUser, rPass)
     /\ cliPc = "returned"
     /\ rerr # DialErr)
        => /\ res = [RC |-> rHandler.rc, Stdout |-> rHandler.out,
                     Stderr |-> rHandler.err]
           /\ rerr.kind \in {"nil", "exit"}

(* C6 witness: a MockHandler with RC 279, valid credentials, the call      *)
(* returned: the Results carry RC 23.                                      *)
C6_Witness ==
    /\ rEntry = "ExecPassword"
    /\ rHandler = MockHandler(279, <<109>>, <<109>>)
    /\ rCmd = <<102, 34>>
    /\ cliPc = "returned"
    /\ res = [RC |-> 23, Stdout |-> <<109>>, Stderr |-> <<109>>]

(* Everything the remote command wrote on a stream: what reached the      *)
(* channel, what its pipe still holds and what the closed channel refused. *)
RemoteStdout == wroteOut \o bashIO.out \o bashIO.lostOut
RemoteStderr == wroteErr \o bashIO.err \o bashIO.lostErr

(* C7: when a buffered Session (one Buffered was called on, as            *)
(* ExecPassword does) runs a command that the remote accepts and ends with *)
(* exit status 0, Run returns RC = 0 and a nil error, and Stdout and       *)
(* Stderr are exactly the bytes the remote wrote on each stream, in order  *)
(* and without truncation.                                                 *)
C7_BufferedRunCapturesOutput ==
    (/\ rEntry = "ExecPassword"
     /\ cliPc = "returned"
     /\ execReply = "ok"
     /\ exitStatus = 0)
        => /\ res.RC = 0
           /\ rerr = NoErr
           /\ res.Stdout = RemoteStdout
           /\ res.Stderr = RemoteStderr

(* C7 witness: a bash command wrote a byte on its stdout and exited 0;     *)
(* the channel was closed before the byte was copied to it, and Run        *)
(* returned RC = 0, a nil error and an empty Stdout.                       *)
C7_Witness ==
    /\ rEntry = "ExecPassword"
    /\ cliPc = "returned"
    /\ execReply = "ok"
    /\ exitStatus = 0
    /\ rHandler.kind = "bash"
    /\ rerr = NoErr
    /\ res.Stdout = <<>>
    /\ bashIO.lostOut # <<>>

(* What Run returns is what the channel carried: every byte that reached   *)
(* the channel before its close is in the Results of a buffered Session.   *)
RunCapturesChannelOutput ==
    (/\ rEntry = "ExecPassword"
     /\ cliPc = "returned"
     /\ execReply = "ok"
     /\ exitStatus = 0)
        => /\ res.Stdout = wroteOut
           /\ res.Stderr = wroteErr

----------------------------------------------------------------------------
(* Reading a control line back: the fields between the leading C, the two  *)
(* first spaces and the closing newline, and the number a field of digits  *)
(* denotes.                                                                *)
HasTwoSpaces(line) ==
    \E i, j \in 1 .. Len(line) : i < j /\ line[i] = 32 /\ line[j] = 32

FirstSpace(line) ==
    CHOOSE i \in 1 .. Len(line) :
        line[i] = 32 /\ \A j \in 1 .. (i - 1) : line[j] # 32

SecondSpace(line) ==
    CHOOSE i \in (FirstSpace(line) + 1) .. Len(line) :
        line[i] = 32 /\ \A j \in (FirstSpace(line) + 1) .. (i - 1) : line[j] # 32

ModeField(line) == SubSeq(line, 2, FirstSpace(line) - 1)
SizeField(line) == SubSeq(line, FirstSpace(line) + 1, SecondSpace(line) - 1)
NameField(line) == SubSeq(line, SecondSpace(line) + 1, Len(line) - 1)

IsDigits(f, base) ==
    f # <<>> /\ \A i \in 1 .. Len(f) : f[i] \in 48 .. (47 + base)

RECURSIVE DigitsValue(_, _)
DigitsValue(f, base) ==
    IF f = <<>> THEN 0
    ELSE base * DigitsValue(SubSeq(f, 1, Len(f) - 1), base) + (f[Len(f)] - 48)

(* The file name Copy was called with. *)
NameGivenToCopy ==
    IF kEntry = "Session.CopyFile" THEN SessionCopyFileName(kPath)
    ELSE IF kEntry = "Connection.CopyFile" THEN ConnectionCopyFileName(kPath)
    ELSE kPath

(* What the control line is apart from the width of its mode: C, the mode  *)
(* in octal digits, a space, the size in decimal, a space, the name, a     *)
(* newline.                                                                *)
ControlLineFrame ==
    /\ kLine[1] = 67
    /\ kLine[Len(kLine)] = 10
    /\ HasTwoSpaces(kLine)
    /\ IsDigits(ModeField(kLine), 8)
    /\ DigitsValue(ModeField(kLine), 8) = kMode
    /\ IsDigits(SizeField(kLine), 10)
    /\ Len(SizeField(kLine)) = 1 \/ SizeField(kLine)[1] # 48
    /\ DigitsValue(SizeField(kLine), 10) = kSize
    /\ NameField(kLine) = NameGivenToCopy

(* C8, as the specification states it: the control line Copy writes is C,  *)
(* the mode as six zero-padded octal digits, a space, the size in decimal, *)
(* a space, the file name and a newline, for every mode, size and name.    *)
C8_ControlLineSixOctalDigits ==
    kPc = "written" =>
        /\ ControlLineFrame
        /\ Len(ModeField(kLine)) = 6

(* C8, as the code has it: the control line Copy writes is C, the mode in  *)
(* octal led by one 0 (the digits of the mode with a 0 put in front, and   *)
(* the single digit 0 for mode 0), a space, the size in decimal, a space,  *)
(* the file name Copy was given and a newline, for every mode, size and    *)
(* name.                                                                   *)
C8_ControlLineLeadingZeroOctal ==
    kPc = "written" =>
        /\ ControlLineFrame
        /\ ModeField(kLine)[1] = 48
        /\ Len(ModeField(kLine)) = 1 \/ ModeField(kLine)[2] # 48

(* C8 witness: Copy called with mode 0644, size 12 and name "a" has        *)
(* written "C0644 12 a\n".                                                 *)
C8_Witness ==
    /\ kPc = "written"
    /\ kEntry = "Copy"
    /\ kMode = 420
    /\ kSize = 12
    /\ kLine = <<67, 48, 54, 52, 52, 32, 49, 50, 32, 97, 10>>

(* C9: for every path given to CopyFile, the file name in the control line *)
(* is the base name of the path and holds no directory separator.          *)
C9_CopyFileWritesBaseName ==
    (kPc = "written" /\ kEntry \in {"Session.CopyFile", "Connection.CopyFile"})
        => /\ HasTwoSpaces(kLine)
           /\ NameField(kLine) = Base(kPath)
           /\ \A i \in 1 .. Len(NameField(kLine)) : NameField(kLine)[i] # 47

(* C9 witness: Session.CopyFile of "d/a" has written a control line whose  *)
(* file name is the whole path.                                            *)
C9_Witness ==
    /\ kPc = "written"
    /\ kEntry = "Session.CopyFile"
    /\ kPath = <<100, 47, 97>>
    /\ NameField(kLine) = <<100, 47, 97>>

(* C10: once Copy has received the result of Wait, it has returned nil if  *)
(* and only if the remote scp exited with status 0, and for a non-zero     *)
(* exit status it has returned a CmdError with that status as RC, the      *)
(* first decoded message of the remote's stdout as Stdout and the captured *)
(* stderr as Stderr.                                                       *)
C10_CopyReturnsNilOrCmdError ==
    (cpPc = "returned" /\ waitPc = "done") =>
        /\ (cpRet = NilRet) <=> (scpPc = "exited" /\ scpStatus = 0)
        /\ (scpPc = "exited" /\ scpStatus # 0) =>
              /\ cpRet.kind = "CmdError"
              /\ cpRet.rc = scpStatus
              /\ cpRet.stderr = cpErr
              /\ cpRet.stdout = DecodeStdout(cpOut)

(* C10 witness: the remote wrote three status bytes and exited with status *)
(* 1; Copy took the result of Wait and ended in the panic of parts[0].     *)
C10_Witness ==
    /\ cpPc = "returned"
    /\ waitPc = "done"
    /\ scpStatus = 1
    /\ cpOut = <<0, 0, 0>>
    /\ cpRet = IndexPanic

(* C11, as the specification states it: for every remote stdout made of a  *)
(* status byte, a non-empty message without a byte below 3, a newline and  *)
(* any number of further frames, the decoder yields exactly the message.   *)
C11_DecoderYieldsFirstMessage ==
    (dPc = "done" /\ dFramed) => (~dPanicked /\ dDecoded = dMessage)

(* C11, as the code has it: the same, for a message that does not end in a *)
(* newline; every newline that ends the first field is trimmed, so such a  *)
(* message loses its own trailing newlines.                                *)
C11_DecoderYieldsFirstLine ==
    (dPc = "done" /\ dFramed /\ dMessage[Len(dMessage)] # 10)
        => (~dPanicked /\ dDecoded = dMessage)

(* C11 witness: a warning frame followed by an error frame, decoded to the *)
(* message of the warning.                                                 *)
C11_Witness ==
    /\ dPc = "done"
    /\ dFramed
    /\ dStdout = <<1, 65, 66, 10, 2, 67, 10>>
    /\ dDecoded = <<65, 66>>

(* What C12 asks of a Copy whose io.Copy has failed: Copy gives up, and    *)
(* when it has returned the pipe is closed and the result is the wrapped   *)
(* copy error, no CmdError; no NUL terminator is on the channel.           *)
GivesUp ==
    /\ cpPc \in {"abort", "returned"}
    /\ \A i \in 1 .. Len(cpWire) : cpWire[i] # Wire("data", <<0>>)
    /\ cpPc = "returned" =>
          /\ wClosed
          /\ cpRet = CopyErrRet
          /\ cpRet.kind # "CmdError"

(* C12: when a Write of the body to the channel has failed, Copy gives up  *)
(* at once: no NUL terminator is written, the write side is closed and     *)
(* Copy returns the wrapped copy error, which is no CmdError; and nothing  *)
(* is written once Copy has returned.                                      *)
C12_BodyWriteFailureAborts ==
    /\ [](cpIoErr \in {"eof", "other"} => GivesUp)
    /\ [][cpPc = "returned" =>
             UNCHANGED <<cpWire, wClosed, wFailed, cpRet>>]_vars

(* C12 witness: Connection.Copy of a two-byte body to a remote scp that    *)
(* exited with status 1 and closed the channel after the control line.     *)
(* The Write of the body failed with io.EOF, Copy went on to the end       *)
(* marker, Close and Wait, and returned a CmdError.                        *)
C12_Witness ==
    /\ cpEntry = "Connection.Copy"
    /\ cpBody = <<120, 121>>
    /\ cpIoErr = "eof"
    /\ Len(cpWire) = 2
    /\ cpPc = "returned"
    /\ cpRet.kind = "CmdError"
    /\ cpRet.rc = 1

(* Every other failure of io.Copy makes Copy give up as C12 says: each     *)
(* failure in Session.Copy, and in Connection.Copy a failure of the reader *)
(* or a Write error other than io.EOF.                                     *)
CopyGivesUpUnlessEOF ==
    (cpIoErr # "none" /\ ~(cpEntry = "Connection.Copy" /\ cpIoErr = "eof"))
        => GivesUp

(* C13: Session.Close is idempotent.  After any call of Close on a Session *)
(* that owns its connection, the logical channel is gone, the transport    *)
(* handle is closed and was released exactly once, and the call returned   *)
(* no error; a Close after the first changes none of this.                 *)
C13_CloseIsIdempotent ==
    [][/\ (lCloses' >= 1 /\ lHasClient') =>
            /\ ~chanOpen'
            /\ connState' = "closed"
            /\ connReleased' = 1
       /\ lCloses' > lCloses => lErr' = NoErr
       /\ (lCloses >= 1 /\ lCloses' > lCloses) =>
            UNCHANGED <<chanOpen, connState, connReleased>>]_vars

(* C13 witness: Close was called three times on an open Session; the       *)
(* transport handle was released once.                                     *)
C13_Witness ==
    /\ lCloses = 3
    /\ lCalls = 3
    /\ connState = "closed"
    /\ connReleased = 1

(* C14: after a failed pseudo-terminal request, in Terminal or in the      *)
(* NewSession that requests a pty, the connection is closed and the call   *)
(* returned the request's error (and NewSession no Session); after a       *)
(* Terminal that succeeded the connection is open.                         *)
C14_PtyFailureClosesConnection ==
    /\ (lLast = "terminal" /\ lErr # NoErr) =>
          (lErr = PtyErr /\ connState = "closed" /\ connReleased = 1)
    /\ (lLast = "terminal" /\ lErr = NoErr) =>
          (connState = "open" /\ connReleased = 0 /\ lPty)
    /\ (lLast = "dial" /\ lErr = PtyErr) =>
          (connState = "closed" /\ connReleased = 1 /\ lPc = "failed")

(* C14 witness: Terminal failed on an open Session and the connection is   *)
(* closed.                                                                 *)
C14_Witness ==
    /\ lVariant = "plain"
    /\ lLast = "terminal"
    /\ lCalls = 1
    /\ lErr = PtyErr
    /\ connState = "closed"

(* C15: when opening the logical channel fails after a successful dial and *)
(* handshake, the caller has an error and no Session, and the connection   *)
(* dialed for it is not open.                                              *)
C15_NewSessionFailureLeavesNothing ==
    (lLast = "dial" /\ lErr = ChanOpenErr) =>
        (lPc = "failed" /\ ~lHasClient /\ ~chanOpen /\ connState # "open")

(* C15 witness: client.NewSession failed; the caller holds no Session and  *)
(* the transport handle is open and was never released.                    *)
C15_Witness ==
    /\ lPc = "failed"
    /\ lErr = ChanOpenErr
    /\ connState = "open"
    /\ connReleased = 0

(* C16: once Server has returned its closure, the listener is bound to the *)
(* requested port when options.Port was set and non-zero and to a port the *)
(* system picked otherwise, and *options.Port holds the port bound.        *)
C16_BindsRequestedPort ==
    sPc = "serving" =>
        /\ sPortOpt > 0 => sBound = sPortOpt
        /\ sPortOpt <= 0 => sBound \in EphemeralPorts
        /\ sReported = sBound

(* C16 witness: Server was asked for port 12200 and is listening on a port *)
(* the system picked, which it reports.                                    *)
C16_Witness ==
    /\ sPc = "serving"
    /\ sPortOpt = 12200
    /\ sBound \in EphemeralPorts
    /\ sReported = sBound

(* An invocation of the shutdown closure has returned. *)
ShutdownDone == \E i \in Shutdowns : shutPc[i] = "done"

(* C17: once an invocation of the closure has returned, the listener is    *)
(* closed; the accept error this causes is never logged as a failure and   *)
(* no connection is accepted afterwards; a further invocation changes      *)
(* nothing; and the accept loop exits in the end.                          *)
C17_ShutdownStopsAcceptLoop ==
    /\ [](ShutdownDone => (listener = "closed" /\ ~listening))
    /\ [](~sCloseLogged /\ ~sAcceptedAfter)
    /\ [][(ShutdownDone /\ shutPc' # shutPc) =>
              UNCHANGED <<listener, listening, loopPc, sBacklog, sFailLogs>>]_vars
    /\ ShutdownDone ~> (loopPc = "exited")

(* C17 witness: the closure has returned and the listener is closed while  *)
(* the loop is inside the handshake of a connection it had accepted, which *)
(* the close of the listener does not end.                                 *)
C17_Witness ==
    /\ ShutdownDone
    /\ listener = "closed"
    /\ loopPc = "handshake"
    /\ sConn # NoConn

(* All of C17 but the exit of a loop that is inside a handshake: the       *)
(* listener is closed, the accept error of the close is never logged, no   *)
(* connection is accepted afterwards, a further invocation changes         *)
(* nothing, and a loop that is at Accept exits.                            *)
ShutdownStopsLoopAtAccept ==
    /\ [](ShutdownDone => (listener = "closed" /\ ~listening))
    /\ [](~sCloseLogged /\ ~sAcceptedAfter)
    /\ [][(ShutdownDone /\ shutPc' # shutPc) =>
              UNCHANGED <<listener, listening, loopPc, sBacklog, sFailLogs>>]_vars
    /\ (ShutdownDone /\ loopPc = "accept") ~> (loopPc = "exited")

(* The closure was invoked twice, the second time after the loop had       *)
(* served a connection and left.                                           *)
ShutdownTwiceAfterExit ==
    /\ \A i \in Shutdowns : shutPc[i] = "done"
    /\ loopPc = "exited"
    /\ Len(sAuthLog) >= 1
    /\ sFailLogs = 0

(* C18: the server accepts a password login if and only if a password is   *)
(* configured and the user and password offered equal the configured ones; *)
(* the password check is installed exactly when a password is configured.  *)
C18_PasswordLoginIffConfiguredMatch ==
    /\ \A i \in DOMAIN sAuthLog :
          sAuthLog[i].ok <=>
             (/\ sCfgPass # ""
              /\ sAuthLog[i].user = sCfgUser
              /\ sAuthLog[i].pass = sCfgPass)
    /\ sPc \in {"serving", "failed"} => (sCallback <=> sCfgPass # "")

(* C18 witness: with a password configured, one login was accepted and one *)
(* with the right user and an empty password was refused.                  *)
C18_Witness ==
    /\ sCfgPass = "howdy!"
    /\ Len(sAuthLog) = 2
    /\ sAuthLog[1] = [user |-> "joebob", pass |-> "howdy!", ok |-> TRUE]
    /\ sAuthLog[2] = [user |-> "joebob", pass |-> "", ok |-> FALSE]

(* C19: with a timeout of zero or less, a call of exec whose worker has    *)
(* completed was not answered with the timeout error.                      *)
C19_NonPositiveTimeoutDeliversResults ==
    (timeout <= 0 /\ workerPc \in {"send", "done"})
        => outcomes # <<"timeout">>

(* C19 witness: exec with timeout 0 returned the timeout error, and the    *)
(* worker's command then completed with exit status 0.                     *)
C19_Witness ==
    /\ timeout = 0
    /\ callerPc = "returned"
    /\ ret.err = TimeoutErr(0)
    /\ workerPc = "send"
    /\ workerRes.err = NoErr

(* C20: the exit status alone decides the error of Run.  For a command the *)
(* remote accepted, Run returns a nil error when the exit status received  *)
(* is 0 and an exit-status error carrying the status, with RC equal to it, *)
(* when it is not 0, whatever was written to stderr.                       *)
C20_ExitStatusDecidesError ==
    (cliPc = "returned" /\ execReply = "ok") =>
        /\ exitStatus = 0 => (rerr = NoErr /\ res.RC = 0)
        /\ exitStatus # 0 =>
              (rerr = ExitError(exitStatus) /\ res.RC = exitStatus)

(* C20 witness: a command that wrote to stderr and exited with status 0:   *)
(* Run returned the stderr text and a nil error.                           *)
C20_Witness ==
    /\ cliPc = "returned"
    /\ execReply = "ok"
    /\ exitStatus = 0
    /\ wroteErr # <<>>
    /\ res.Stderr = wroteErr
    /\ rerr = NoErr

(* C20 second witness: a command that wrote nothing to stderr and exited   *)
(* with status 23: Run returned an exit-status error.                      *)
C20_WitnessSilentFailure ==
    /\ cliPc = "returned"
    /\ execReply = "ok"
    /\ exitStatus = 23
    /\ wroteErr = <<>>
    /\ rerr = ExitError(23)

(* C21: nothing is retried.  One call of ExecPassword or Run dials at most *)
(* once, opens at most one channel and sends at most one exec request; a   *)
(* dial or handshake failure is returned before any channel or request,    *)
(* and once the call has returned it makes no further attempt.             *)
C21_NothingIsRetried ==
    [][/\ rAttempts'.dial <= 1
       /\ rAttempts'.chan <= 1
       /\ rAttempts'.exec <= 1
       /\ (cliPc' = "returned" /\ rerr' \in {DialErr, AuthErr}
             => rAttempts' = [dial |-> 1, chan |-> 0, exec |-> 0])
       /\ (cliPc = "returned" => rAttempts' = rAttempts)]_vars

(* C21 witness: a call that failed after its one dial, one channel and one *)
(* exec request, and has returned the error.                               *)
C21_Witness ==
    /\ cliPc = "returned"
    /\ rerr # NoErr
    /\ rAttempts = [dial |-> 1, chan |-> 1, exec |-> 1]

(* A Clear lies between the last Run before position n of the log and n. *)
ClearedBefore(log, n) ==
    \E i \in 1 .. (n - 1) :
        /\ log[i] = "Clear"
        /\ \A j \in (i + 1) .. (n - 1) : log[j] # "Run"

(* C22: Clear empties both captured-output buffers and changes nothing    *)
(* else - channel, connection, redirection, the ssh.Session's state and a  *)
(* running shell stay as they were - and the Results of a Run made after a *)
(* Clear hold only what the remote wrote since that Clear, nothing from    *)
(* before it: without a shell that is what the Run's own command wrote.    *)
C22_ClearEmptiesBuffersOnly ==
    [][/\ (Len(ssLog') > Len(ssLog) /\ ssLog'[Len(ssLog')] = "Clear")
            => /\ ssOut' = <<>>
               /\ ssErr' = <<>>
               /\ UNCHANGED <<ssRedir, ssStarted, ssChan, ssConn, ssRes,
                              ssRerr, ssWrote, ssShell>>
       /\ (/\ Len(ssLog') > Len(ssLog)
           /\ ssLog'[Len(ssLog')] = "Run"
           /\ ClearedBefore(ssLog', Len(ssLog')))
            => /\ ssRes'.Stdout = ssSince'.out
               /\ ssRes'.Stderr = ssSince'.err
               /\ ~ShellCaptures =>
                     /\ ssRes'.Stdout =
                          IF ssRedir THEN ssWrote'[Len(ssWrote')].out ELSE <<>>
                     /\ ssRes'.Stderr =
                          IF ssRedir THEN ssWrote'[Len(ssWrote')].err ELSE <<>>]_vars

(* C22 witness: a shell on a buffered Session wrote a byte, Clear emptied  *)
(* the buffers while the copier waited for the next byte, and the Run made *)
(* after the Clear returned the byte from before it.                       *)
C22_Witness ==
    /\ ssLog = <<"Buffered", "Shell", "Clear", "Run">>
    /\ ssSince.out = <<97>>
    /\ ssRes.Stdout = <<98, 97>>
    /\ ssRerr = StartedErr

(* Without a shell feeding the buffers Clear does what the claim says:    *)
(* the Run after it returns what its own command wrote and nothing else.   *)
ClearWorksWithoutShell ==
    [][(/\ Len(ssLog') > Len(ssLog)
        /\ ssLog'[Len(ssLog')] = "Run"
        /\ ClearedBefore(ssLog', Len(ssLog'))
        /\ ~ShellCaptures)
            => /\ ssRes'.Stdout =
                    IF ssRedir THEN ssWrote'[Len(ssWrote')].out ELSE <<>>
               /\ ssRes'.Stderr =
                    IF ssRedir THEN ssWrote'[Len(ssWrote')].err ELSE <<>>]_vars

(* The bytes of the data events at positions from .. to of the channel. *)
RECURSIVE WireBytes(_, _, _)
WireBytes(wire, from, to) ==
    IF from > to THEN <<>>
    ELSE wire[from].data \o WireBytes(wire, from + 1, to)

(* How many events of one kind the channel has seen. *)
WireCount(wire, ev) == Cardinality({i \in 1 .. Len(wire) : wire[i].ev = ev})

(* A Copy whose pipe, start, body stream and connection all worked, and   *)
(* none of whose writes to the pipe returned an error.                    *)
CopyWithoutIOFailure ==
    /\ cpRet.kind \notin {"pipe", "start", "copy error"}
    /\ ~wFailed
    /\ scpPc # "lost"

(* C23: in a Copy without I/O failure, once the streaming is over the      *)
(* channel has seen, in this order and each once, the exec request of the  *)
(* scp sink for the destination, the control line, the bytes of the file,  *)
(* one NUL byte and the close of the write side; and Copy has returned     *)
(* only after the remote's exit status was received through Wait.          *)
C23_CopyEventOrder ==
    (CopyWithoutIOFailure /\ cpPc \in {"wait", "returned"}) =>
        /\ Len(cpWire) >= 4
        /\ cpWire[1] = Wire("exec", ScpCmd(cpDest))
        /\ cpWire[2] = Wire("data", ControlLine(cpMode, cpSize, cpName))
        /\ \A i \in 3 .. (Len(cpWire) - 2) : cpWire[i].ev = "data"
        /\ WireBytes(cpWire, 3, Len(cpWire) - 2) = cpBody
        /\ cpWire[Len(cpWire) - 1] = Wire("data", <<0>>)
        /\ cpWire[Len(cpWire)] = Wire("eof", <<>>)
        /\ WireCount(cpWire, "exec") = 1
        /\ WireCount(cpWire, "eof") = 1
        /\ wClosed
        /\ cpPc = "returned" =>
              /\ scpPc = "exited"
              /\ waitPc = "done"
              /\ waitRes = SshRunErr(scpStatus)

(* C23 witness: a two-byte file was copied, the remote exited with status  *)
(* 0 and Copy has returned nil.                                            *)
C23_Witness ==
    /\ cpPc = "returned"
    /\ cpRet = NilRet
    /\ cpBody = <<120, 121>>
    /\ Len(cpWire) = 5
    /\ cpWire[3] = Wire("data", <<120, 121>>)
    /\ scpPc = "exited"
    /\ scpStatus = 0

(* The positions of the calls of one kind among the calls of a request. *)
EventsOf(events, ev) == {i \in 1 .. Len(events) : events[i].ev = ev}

(* C24: every "exec" request on an accepted session channel makes the      *)
(* dispatcher call the handler once, with the payload after its first four *)
(* bytes as the command, then send the exit-status request, then close the *)
(* channel: no close comes before the exit-status, and the channel is      *)
(* closed afterwards.                                                      *)
C24_ExecThenExitStatusThenClose ==
    dLast.req.type = "exec" =>
        /\ Len(dLast.events) >= 4
        /\ EventsOf(dLast.events, "Exec") = {1}
        /\ dLast.events[1].data =
              SubSeq(dLast.req.payload, 5, Len(dLast.req.payload))
        /\ EventsOf(dLast.events, "Stderr") = {2}
        /\ EventsOf(dLast.events, "exit-status") = {3}
        /\ EventsOf(dLast.events, "Close") # {}
        /\ \A i \in EventsOf(dLast.events, "Close") : i > 3
        /\ dChan[dLast.chan].st = "closed"
        /\ ~srvPanicked

(* C24 witness: an exec request with a well-formed payload on an open      *)
(* channel: the handler was called with the command, the exit-status went  *)
(* out, then the reply, then the close.                                    *)
C24_Witness ==
    /\ dLast.req = Req("exec", BE32(1) \o <<102>>, TRUE)
    /\ Len(dLast.events) = 6
    /\ dLast.events[1] = Ev("Exec", <<102>>, dLast.chan, TRUE)
    /\ dLast.events[3] = Ev("exit-status", <<0, 0, 0, 0>>, dLast.chan, TRUE)
    /\ dLast.events[5] = Ev("Close", <<>>, dLast.chan, TRUE)
    /\ dChan[dLast.chan].st = "closed"

(* C25: when the handler returns an error for an "exec" request, every     *)
(* reply to the request says rejected, a request that wants a reply gets   *)
(* one, and the exit-status request with the handler's code is still sent  *)
(* and the channel still closed; when the handler returns no error, the    *)
(* reply says accepted.                                                    *)
C25_HandlerErrorRejectsRequest ==
    (dLast.req.type = "exec" /\ Len(dLast.req.payload) >= 4) =>
        /\ \A i \in EventsOf(dLast.events, "Reply") :
              dLast.events[i].data = Bit(~dLast.herr)
        /\ dLast.req.want => EventsOf(dLast.events, "Reply") # {}
        /\ \E i \in EventsOf(dLast.events, "exit-status") :
              dLast.events[i].data = BE32(dLast.rc)
        /\ EventsOf(dLast.events, "Close") # {}
        /\ dChan[dLast.chan].st = "closed"

(* C25 witness: the handler returned code 0 and an error for an exec       *)
(* request that wants a reply: the request was answered as rejected, the   *)
(* exit-status with code 0 was sent and the channel closed.                *)
C25_Witness ==
    /\ dLast.req = Req("exec", BE32(1) \o <<102>>, TRUE)
    /\ dLast.herr
    /\ dLast.rc = 0
    /\ Len(dLast.events) = 6
    /\ dLast.events[3] = Ev("exit-status", <<0, 0, 0, 0>>, dLast.chan, TRUE)
    /\ dLast.events[4] = Ev("Reply", <<0>>, dLast.chan, TRUE)
    /\ dLast.events[5] = Ev("Close", <<>>, dLast.chan, TRUE)
    /\ dChan[dLast.chan].st = "closed"

(* C26: a new channel is accepted if and only if its type is "session".    *)
(* A channel of another type is rejected with the reason                   *)
(* UnknownChannelType and nothing else is done for it: the handler is      *)
(* never bound to it and no request of it is ever handled.  For a session  *)
(* channel the Accept is made, and unless it fails the channel is open.    *)
C26_OnlySessionChannelsAccepted ==
    \A c \in DConns :
        dChan[c].st \notin {"none", "offered"} =>
            /\ (dChan[c].st = "rejected") <=> (dChan[c].type # "session")
            /\ dChan[c].type # "session" =>
                  /\ dBound # c
                  /\ dLast.chan = c =>
                        dLast = Last(c, NoReq, 0, FALSE,
                            <<Ev("Reject", <<UnknownChannelType>>, c, TRUE)>>)
            /\ dChan[c].type = "session" =>
                  dChan[c].st \in {"acceptFailed", "open", "closed"}

(* C26 witness: on one connection a "direct-tcpip" channel was rejected    *)
(* with the reason UnknownChannelType, on another a "session" channel is   *)
(* open and has the handler bound to it.                                   *)
C26_Witness ==
    /\ dChan[2] = [type |-> "direct-tcpip", st |-> "rejected"]
    /\ dChan[1] = [type |-> "session", st |-> "open"]
    /\ dBound = 1
    /\ dLast = Last(2, NoReq, 0, FALSE,
                    <<Ev("Reject", <<UnknownChannelType>>, 2, TRUE)>>)

(* C27: handling a "shell" request gives the answer accepted if and only   *)
(* if the payload is empty - the answer goes out as the one reply when the *)
(* request wants a reply, and nothing goes out when it wants none - and it *)
(* does nothing else: the handler is not called, no exit-status is sent,   *)
(* the channel is not closed and stays as it was.                          *)
C27_ShellAcceptedIffNoPayload ==
    [][(dReqs' = dReqs + 1 /\ dTurn' = dTurn /\ dLast'.req.type = "shell") =>
          /\ \A i \in 1 .. Len(dLast'.events) :
                /\ dLast'.events[i].ev = "Reply"
                /\ (dLast'.events[i].data = Bit(TRUE))
                      <=> (dLast'.req.payload = <<>>)
                /\ dLast'.events[i].data \in {Bit(TRUE), Bit(FALSE)}
          /\ Len(dLast'.events) = IF dLast'.req.want THEN 1 ELSE 0
          /\ EventsOf(dLast'.events, "Exec") = {}
          /\ EventsOf(dLast'.events, "exit-status") = {}
          /\ EventsOf(dLast'.events, "Close") = {}
          /\ UNCHANGED <<dChan, dBound, dConn, srvPanicked>>]_vars

(* C27 witness: a shell request with a command in its payload was answered *)
(* as rejected on a channel that is still open.                            *)
C27_Witness ==
    /\ dLast.req = Req("shell", <<120>>, TRUE)
    /\ dLast.events = <<Ev("Reply", <<0>>, dLast.chan, TRUE)>>
    /\ dChan[dLast.chan].st = "open"

(* C28: handling a session request of a type other than "shell" and "exec" *)
(* leaves the channel, the handler's binding and the server as they were;  *)
(* the dispatcher answers it as accepted, once, when it wants a reply, and *)
(* makes no call at all when it wants none.                                *)
C28_OtherRequestsOnlyAcknowledged ==
    [][(/\ dReqs' = dReqs + 1
        /\ dTurn' = dTurn
        /\ dLast'.req.type \notin {"shell", "exec"}) =>
          /\ dLast'.req.type \in {"pty-req", "window-change"}
          /\ dLast'.events =
                IF dLast'.req.want
                THEN <<Ev("Reply", Bit(TRUE), dLast'.chan,
                          dChan[dLast'.chan].st = "open")>>
                ELSE <<>>
          /\ UNCHANGED <<dChan, dBound, dConn, srvPanicked>>]_vars

(* C28 witness: a "pty-req" that wants a reply was answered as accepted on *)
(* a channel that is still open and still has the handler bound.           *)
C28_Witness ==
    /\ dLast.req = Req("pty-req", <<1>>, TRUE)
    /\ dLast.events = <<Ev("Reply", <<1>>, dLast.chan, TRUE)>>
    /\ dChan[dLast.chan].st = "open"
    /\ dBound = dLast.chan

(* A handshake or a channel accept has failed. *)
SomethingFailed ==
    \E k \in DConns : dConn[k] = "failed" \/ dChan[k].st = "acceptFailed"

(* C29: a failed handshake and a failed channel accept end that connection *)
(* and that channel only.  The step changes nothing else; the handshake    *)
(* fails exactly for invalid credentials; and after a failure every        *)
(* connection that waits at the listener is taken and gets through its     *)
(* handshake, every channel a client opens is handled, and every exec      *)
(* request is served by a call of the handler.                             *)
C29_FailuresAbandonOnlyTheirOwn ==
    /\ [][\A k \in DConns :
            /\ (dConn[k] = "handshake" /\ dConn'[k] = "failed") =>
                  /\ \A j \in DConns \ {k} : dConn'[j] = dConn[j]
                  /\ UNCHANGED <<dChan, dBound, srvPanicked>>
            /\ (dChan[k].st = "offered" /\ dChan'[k].st = "acceptFailed") =>
                  /\ \A j \in DConns \ {k} : dChan'[j] = dChan[j]
                  /\ UNCHANGED <<dConn, dBound, srvPanicked>>]_vars
    /\ [](\A k \in DConns :
            /\ dConn[k] = "up" => dValid[k]
            /\ dConn[k] = "failed" => ~dValid[k])
    /\ \A k \in DConns :
          /\ (SomethingFailed /\ dConn[k] = "queued")
                ~> (dConn[k] \in {"up", "failed"})
          /\ (SomethingFailed /\ dChan[k].st = "offered")
                ~> (dChan[k].st # "offered")
    /\ []((SomethingFailed /\ dLast.req.type = "exec") =>
              (dLast.events # <<>> /\ dLast.events[1].ev = "Exec"))

(* C29 witness: the first connection failed its handshake; the second,     *)
(* which came after it and offered valid credentials, sent an exec request *)
(* with a payload of three bytes, which was not served: the server is down *)
(* (C37).                                                                  *)
C29_Witness ==
    /\ dConn = <<"failed", "up">>
    /\ dValid[2]
    /\ dLast.chan = 2
    /\ dLast.req = Req("exec", <<0, 0, 0>>, TRUE)
    /\ dLast.events = <<>>
    /\ srvPanicked

(* After the failed handshake of the first connection the loop is inside   *)
(* the handshake of the second, which nothing ends: a connection that      *)
(* arrives now is not accepted (C30).                                      *)
C29_WitnessHandshakeHolds ==
    /\ dConn = <<"failed", "handshake">>
    /\ ~ENABLED DispAccept

(* What holds of C29: the failure step changes nothing but its own         *)
(* connection or channel, and the handshake fails exactly for invalid      *)
(* credentials.                                                            *)
FailuresLeaveTheRestAlone ==
    /\ [][\A k \in DConns :
            /\ (dConn[k] = "handshake" /\ dConn'[k] = "failed") =>
                  /\ \A j \in DConns \ {k} : dConn'[j] = dConn[j]
                  /\ UNCHANGED <<dChan, dBound, srvPanicked>>
            /\ (dChan[k].st = "offered" /\ dChan'[k].st = "acceptFailed") =>
                  /\ \A j \in DConns \ {k} : dChan'[j] = dChan[j]
                  /\ UNCHANGED <<dConn, dBound, srvPanicked>>]_vars
    /\ [](\A k \in DConns :
            /\ dConn[k] = "up" => dValid[k]
            /\ dConn[k] = "failed" => ~dValid[k])

(* The first connection failed its handshake; the second, which came after *)
(* it and offered valid credentials, is up and has had its exec request    *)
(* served.                                                                 *)
C29_WitnessServed ==
    /\ dConn = <<"failed", "up">>
    /\ ~dValid[1]
    /\ dValid[2]
    /\ dChan[2] = [type |-> "session", st |-> "closed"]
    /\ dLast.chan = 2
    /\ dLast.req = Req("exec", BE32(1) \o <<102>>, TRUE)
    /\ Len(dLast.events) = 6
    /\ dLast.events[1] = Ev("Exec", <<102>>, 2, TRUE)
    /\ dLast.events[3].ev = "exit-status"
    /\ dLast.events[3].sent

(* The same after a failed channel accept: the channel of the first        *)
(* connection could not be accepted, the exec request on the channel of    *)
(* the second was served.                                                  *)
C29_WitnessChannelAccept ==
    /\ dChan[1].st = "acceptFailed"
    /\ dChan[2] = [type |-> "session", st |-> "closed"]
    /\ dLast.chan = 2
    /\ dLast.req.type = "exec"
    /\ Len(dLast.events) >= 4
    /\ dLast.events[3].sent

(* C30: the handshake of an accepted connection runs in a task of its own; *)
(* while it has not finished and the listener is open, the accept loop can *)
(* take the next connection that waits.                                    *)
C30_HandshakeDoesNotBlockAccept ==
    (loopPc = "handshake" /\ listener = "open" /\ sBacklog # <<>>)
        => ENABLED LoopAccept

(* C30 witness: the loop is in the handshake of one connection while the   *)
(* listener is open and a second connection waits to be accepted.          *)
C30_Witness ==
    /\ loopPc = "handshake"
    /\ sConn # NoConn
    /\ listener = "open"
    /\ Len(sBacklog) = 1

(* C31: the RC of Run is the status of the remote's exit-status when       *)
(* session.ssh.Run ended with an exit error, and 0 in every other case.    *)
(* A command that failed with an error carrying no exit status - the exec  *)
(* request was answered as rejected - has that error returned together     *)
(* with RC 0, even when an exit-status had arrived before.                 *)
C31_RcIsExitStatusOrZero ==
    (cliPc = "returned" /\ rAttempts.exec = 1) =>
        /\ rerr.kind = "exit" =>
              /\ rerr.n = exitStatus
              /\ res.RC = exitStatus
              /\ exitStatus # 0
        /\ rerr.kind # "exit" => res.RC = 0
        /\ execReply = "fail" => (rerr = CmdFailedErr /\ res.RC = 0)
        /\ (execReply = "ok" /\ exitStatus = 0) => rerr = NoErr

(* C31 witness: the remote sent a non-zero exit-status and then rejected   *)
(* the exec request; Run returned the command-failed error and RC 0.       *)
C31_Witness ==
    /\ cliPc = "returned"
    /\ rAttempts.exec = 1
    /\ execReply = "fail"
    /\ exitStatus > 0
    /\ rerr = CmdFailedErr
    /\ res.RC = 0

(* s occurs in t as a run of consecutive bytes. *)
IsSegment(s, t) ==
    \E i \in 0 .. (Len(t) - Len(s)) : SubSeq(t, i + 1, i + Len(s)) = s

(* C32: for every non-empty remote stdout the decoding does not end in the *)
(* panic, the Stdout it yields is taken from the bytes after the leading   *)
(* status byte, and it does not end in a newline.                          *)
C32_StatusByteStrippedAtAnyLength ==
    (dPc = "done" /\ dStdout # <<>> /\ ~dPanicked) =>
        /\ IsSegment(dDecoded, Tail(dStdout))
        /\ (dDecoded = <<>> \/ dDecoded[Len(dDecoded)] # 10)

(* C32 witness: a stdout of three bytes - status byte, one letter, newline *)
(* - was decoded to the letter.                                            *)
C32_Witness ==
    /\ dPc = "done"
    /\ dStdout = <<1, 65, 10>>
    /\ dDecoded = <<65>>

(* A stdout of two bytes, status byte and newline, is returned as it is. *)
C32_WitnessShortStdout ==
    /\ dPc = "done"
    /\ dStdout = <<1, 10>>
    /\ dDecoded = <<1, 10>>

(* C38: the decoding of the remote stdout never ends in the panic of an    *)
(* index into an empty list of segments, whatever the stdout is.           *)
C38_DecoderNeverPanics ==
    dPc = "done" => ~dPanicked

(* C38 witness: the stdout "\x01\x00\x02" - three bytes, and after the     *)
(* first only bytes below 3 - was decoded, and the decoding panicked.      *)
C38_Witness ==
    /\ dPc = "done"
    /\ dStdout = <<1, 0, 2>>
    /\ dPanicked

(* C33: exec closes the Session on every return path: whenever it has      *)
(* returned, with the Results or with the timeout error, the Session's     *)
(* channel and connection are closed.                                      *)
C33_ExecClosesSessionOnReturn ==
    callerPc = "returned" =>
        /\ ~sessOpen
        /\ outcomes \in {<<"results">>, <<"timeout">>}

(* C33 witness: exec returned the timeout error while the worker was still *)
(* in session.ssh.Run, and the Session is closed.                          *)
C33_Witness ==
    /\ callerPc = "returned"
    /\ outcomes = <<"timeout">>
    /\ workerPc = "run"
    /\ ~sessOpen

(* C34: an entry point of the (Results, error) API that dialed a           *)
(* connection has closed it when it returns, whether the command succeeded *)
(* or failed.                                                              *)
C34_ExecEntryClosesConnection ==
    (rEntry = "ExecPassword" /\ cliPc = "returned") => cliConn # "open"

(* C34 witness: ExecPassword has returned the Results of a command that    *)
(* ran, and the connection it dialed is still open.                        *)
C34_Witness ==
    /\ rEntry = "ExecPassword"
    /\ cliPc = "returned"
    /\ rAttempts.exec = 1
    /\ rerr = NoErr
    /\ cliConn = "open"

(* C35: the handler serves the exec request of a channel on that channel:  *)
(* whatever other channels are open or are accepted meanwhile, what its    *)
(* Exec writes, on stdout and on stderr, goes to the channel the request   *)
(* came in on.                                                             *)
C35_HandlerWritesToRequestChannel ==
    (dLast.req.type = "exec" /\ dLast.events # <<>>) =>
        /\ dLast.events[1].ev = "Exec"
        /\ dLast.events[1].to = dLast.chan
        /\ dLast.events[2].ev = "Stderr"
        /\ dLast.events[2].to = dLast.chan

(* C35 witness: two session channels are open and the exec request of the  *)
(* first one has been served, its handler writing to the second one.       *)
C35_Witness ==
    /\ dChan[2].st = "open"
    /\ dChan[1].st = "closed"
    /\ dLast.chan = 1
    /\ dLast.req.type = "exec"
    /\ dLast.events # <<>>
    /\ dLast.events[1].ev = "Exec"
    /\ dLast.events[1].to = 2
    /\ dLast.events[2].to = 2

(* The same with the second channel accepted while the handler of the      *)
(* first one ran: its stdout went to the first, its stderr to the second.  *)
C35_WitnessMidTurn ==
    /\ dLast.chan = 1
    /\ dLast.req.type = "exec"
    /\ dLast.events # <<>>
    /\ dLast.events[1] = Ev("Exec", <<102>>, 1, TRUE)
    /\ dLast.events[2] = Ev("Stderr", <<>>, 2, TRUE)

(* C36: a request that wants a reply gets exactly one call of Reply from   *)
(* the dispatcher, whatever its type, and a request that wants none gets   *)
(* none.                                                                   *)
C36_ExactlyOneReplyWhenWanted ==
    dLast.req.type # "none" =>
        Cardinality(EventsOf(dLast.events, "Reply")) =
            IF dLast.req.want THEN 1 ELSE 0

(* C36 witness: an "exec" request that wants a reply was answered twice,   *)
(* before the Close and again after it.                                    *)
C36_Witness ==
    /\ dLast.req = Req("exec", BE32(1) \o <<102>>, TRUE)
    /\ Cardinality(EventsOf(dLast.events, "Reply")) = 2
    /\ \E i \in EventsOf(dLast.events, "Close") :
          /\ dLast.events[i - 1].ev = "Reply"
          /\ dLast.events[i + 1].ev = "Reply"
          /\ ~dLast.events[i + 1].sent

(* C37: an "exec" request is handled without a crash of the server,        *)
(* whatever its payload is.                                                *)
C37_ExecPayloadNeverCrashes ==
    dLast.req.type = "exec" => ~srvPanicked

(* C37 witness: an "exec" request with a payload of three bytes has        *)
(* brought the server down: nothing was called for it and no request is    *)
(* served any more.                                                        *)
C37_Witness ==
    /\ srvPanicked
    /\ dLast.req = Req("exec", <<0, 0, 0>>, TRUE)
    /\ dLast.events = <<>>
    /\ ~ENABLED RequestLoop

(* C39: the goroutine that waits for the remote exit status is never left  *)
(* with its result and no receiver: while it is at its send on the errors  *)
(* channel, Copy has not returned and will still receive.                  *)
C39_WaiterNeverStranded ==
    waitPc = "send" =>
        cpPc \in {"stream", "body", "marker", "close", "wait"}

(* C39 witness: Copy returned the copy error, the remote scp has ended,    *)
(* the goroutine is at its send and no step of the program is left.        *)
C39_Witness ==
    /\ cpRet = CopyErrRet
    /\ cpPc = "returned"
    /\ scpPc = "exited"
    /\ waitPc = "send"
    /\ ~ENABLED NextCopy

====
